---- MODULE Spec2Model ----
(***************************************************************************)
(* A model of the ExcelToPpt report generator: the main workflow of        *)
(* Main.py (read five worksheets, open the template, populate slides 6 to  *)
(* 10, save, restyle, delete the temporary file) and the extraction and    *)
(* slide-population functions it calls.                                    *)
(***************************************************************************)
EXTENDS Integers, Sequences, FiniteSets, TLC

VARIABLES
    pc,        \* main workflow: the statement of the __main__ block about to run
    workbook,  \* main workflow: the worksheet names the workbook file holds
    dfs,       \* main workflow: the worksheets read so far (df_slide6 .. df_slide10)
    prs,       \* main workflow: the Presentation object (0: not yet created);
               \* styling: the slides of the presentation PowerPoint has open
    calls,     \* main workflow: the populate_slide_N calls made so far, in order
    files,     \* main workflow: which output files exist on disk
    log,       \* main workflow: the lines printed to standard output
    events,    \* main workflow: the file operations performed, in order
    df,        \* extraction: the DataFrame a function is called on (it may modify it)
    slide,     \* population: the shapes of the slide being populated
    ret        \* extraction and population: the calls made and what each returned

mainVars == <<pc, workbook, dfs, prs, calls, files, log, events>>
funcVars == <<df, slide, ret>>
vars == <<pc, workbook, dfs, prs, calls, files, log, events, df, slide, ret>>

(***************************************************************************)
(* Main.py, the __main__ block                                             *)
(***************************************************************************)
SHEET_NAME_SLIDE_6 == "Volumetric trends INC & RITM"
SHEET_NAME_SLIDE_7 == "Created"
SHEET_NAME_SLIDE_8 == "Pending Counts"
SHEET_NAME_SLIDE_9 == "Volumetric Change details"
SHEET_NAME_SLIDE_10 == "Business Services"

SLIDE_6_INDEX == 2
SLIDE_7_INDEX == 3
SLIDE_8_INDEX == 4
SLIDE_9_INDEX == 5
SLIDE_10_INDEX == 6

SheetNames ==
    {SHEET_NAME_SLIDE_6, SHEET_NAME_SLIDE_7, SHEET_NAME_SLIDE_8,
     SHEET_NAME_SLIDE_9, SHEET_NAME_SLIDE_10}

\* The five pd.read_excel calls of the try block, in program order.
ReadOrderRepeating ==
    <<SHEET_NAME_SLIDE_6, SHEET_NAME_SLIDE_6, SHEET_NAME_SLIDE_8,
      SHEET_NAME_SLIDE_9, SHEET_NAME_SLIDE_10>>
ReadOrder ==
    <<SHEET_NAME_SLIDE_6, SHEET_NAME_SLIDE_7, SHEET_NAME_SLIDE_8,
      SHEET_NAME_SLIDE_9, SHEET_NAME_SLIDE_10>>

\* The five populate_slide_N statements, in program order: the function
\* called, the worksheet's DataFrame and the slide index passed to it.
PopulateOrder ==
    <<[fn |-> "populate_slide_6", df |-> SHEET_NAME_SLIDE_6, slide |-> SLIDE_6_INDEX],
      [fn |-> "populate_slide_7", df |-> SHEET_NAME_SLIDE_7, slide |-> SLIDE_7_INDEX],
      [fn |-> "populate_slide_8", df |-> SHEET_NAME_SLIDE_8, slide |-> SLIDE_8_INDEX],
      [fn |-> "populate_slide_9", df |-> SHEET_NAME_SLIDE_9, slide |-> SLIDE_9_INDEX],
      [fn |-> "populate_slide_10", df |-> SHEET_NAME_SLIDE_10, slide |-> SLIDE_10_INDEX]>>

At(stmt, n) == [at |-> stmt, n |-> n]

Terminal == {"done", "exited", "crashed"}

\* The statement that follows the k-th read_excel call when it returns.
AfterRead(k) == IF k < 5 THEN At("read", k + 1) ELSE At("open", 0)

\* The statement that follows the k-th populate_slide_N call when it returns.
AfterPopulateSkipping(k) == IF k < 4 THEN At("populate", k + 2) ELSE At("save", 0)
AfterPopulate(k) == IF k < 5 THEN At("populate", k + 1) ELSE At("save", 0)

\* pd.read_excel(EXCEL_FILE_PATH, sheet_name=...) of the k-th worksheet: it
\* raises when the workbook has no such worksheet (an unreadable workbook is
\* a workbook with no worksheets); the except clause prints and calls exit().
ReadExcelContinuing(k) ==
    /\ pc = At("read", k)
    /\ events' = Append(events, <<"read_excel", ReadOrder[k]>>)
    /\ IF ReadOrder[k] \in workbook
       THEN /\ dfs' = dfs \cup {ReadOrder[k]}
            /\ log' = log
       ELSE /\ dfs' = dfs
            /\ log' = Append(log, "FATAL ERROR reading Excel file")
    /\ pc' = AfterRead(k)
    /\ UNCHANGED <<workbook, prs, calls, files>>
    /\ UNCHANGED funcVars

ReadExcel(k) ==
    /\ pc = At("read", k)
    /\ events' = Append(events, <<"read_excel", ReadOrder[k]>>)
    /\ IF ReadOrder[k] \in workbook
       THEN /\ dfs' = dfs \cup {ReadOrder[k]}
            /\ log' = log
            /\ pc' = AfterRead(k)
       ELSE /\ dfs' = dfs
            /\ log' = Append(log, "FATAL ERROR reading Excel file")
            /\ pc' = At("exited", 0)
    /\ UNCHANGED <<workbook, prs, calls, files>>
    /\ UNCHANGED funcVars

\* prs = Presentation(TEMPLATE_PPTX_PATH): outside every try block, so an
\* error (a missing or damaged template) ends the script.
OpenTemplate ==
    /\ pc = At("open", 0)
    /\ \E ok \in BOOLEAN :
        IF ok
        THEN /\ prs' = 1
             /\ pc' = At("populate", 1)
        ELSE /\ prs' = prs
             /\ pc' = At("crashed", 0)
    /\ events' = Append(events, <<"open_template">>)
    /\ UNCHANGED <<workbook, dfs, calls, files, log>>
    /\ UNCHANGED funcVars

\* populate_slide_N(prs, df_slideN, SLIDE_N_INDEX): outside every try block;
\* the call either returns or raises (the sheet's contents decide), and an
\* exception ends the script.
PopulateSlide(k) ==
    /\ pc = At("populate", k)
    /\ calls' = Append(calls, [fn |-> PopulateOrder[k].fn, prs |-> prs,
                               df |-> PopulateOrder[k].df,
                               slide |-> PopulateOrder[k].slide])
    /\ \E ok \in BOOLEAN :
        pc' = IF ok THEN AfterPopulate(k) ELSE At("crashed", 0)
    /\ UNCHANGED <<workbook, dfs, prs, files, log, events>>
    /\ UNCHANGED funcVars

\* print("Saving ..."); prs.save(temp_output_path)
SaveTemp ==
    /\ pc = At("save", 0)
    /\ log' = Append(log, "Saving presentation with all content...")
    /\ \E ok \in BOOLEAN :
        IF ok
        THEN /\ files' = files \cup {"temp"}
             /\ events' = Append(events, <<"save_temp">>)
             /\ pc' = At("style", 1)
        ELSE /\ files' = files
             /\ events' = events
             /\ pc' = At("crashed", 0)
    /\ UNCHANGED <<workbook, dfs, prs, calls>>
    /\ UNCHANGED funcVars

\* apply_chart_styles, up to Presentations.Open(input_path): Dispatch or Open
\* may raise; the finally clause closes what was opened and the exception
\* propagates to the top level, where nothing catches it.
StyleOpen ==
    /\ pc = At("style", 1)
    /\ log' = Append(log, "--- Applying Final Chart Styles ---")
    /\ \E ok \in BOOLEAN :
        IF ok
        THEN /\ events' = Append(events, <<"open_temp">>)
             /\ pc' = At("style", 2)
        ELSE /\ events' = events
             /\ pc' = At("crashed", 0)
    /\ UNCHANGED <<workbook, dfs, prs, calls, files>>
    /\ UNCHANGED funcVars

\* apply_chart_styles, the loop over styles_to_apply and SaveAs(output_path),
\* then the finally clause and the closing print.
StyleSave ==
    /\ pc = At("style", 2)
    /\ \E ok \in BOOLEAN :
        IF ok
        THEN /\ files' = files \cup {"final"}
             /\ events' = Append(events, <<"save_final">>)
             /\ log' = Append(log, "Styling complete.")
             /\ pc' = At("remove", 0)
        ELSE /\ files' = files
             /\ events' = events
             /\ log' = log
             /\ pc' = At("crashed", 0)
    /\ UNCHANGED <<workbook, dfs, prs, calls>>
    /\ UNCHANGED funcVars

\* try: os.remove(temp_output_path) except OSError: print a warning.
RemoveTemp ==
    /\ pc = At("remove", 0)
    /\ \E ok \in BOOLEAN :
        IF ok
        THEN /\ files' = files \ {"temp"}
             /\ events' = Append(events, <<"remove_temp">>)
             /\ log' = Append(log, "Temporary file has been deleted.")
        ELSE /\ files' = files
             /\ events' = events
             /\ log' = Append(log, "Warning: Could not delete temporary file")
    /\ pc' = At("done", 0)
    /\ UNCHANGED <<workbook, dfs, prs, calls>>
    /\ UNCHANGED funcVars

InitMain ==
    /\ pc = At("read", 1)
    /\ workbook \in SUBSET SheetNames
    /\ dfs = {}
    /\ prs = 0
    /\ calls = <<>>
    /\ files = {}
    /\ log = <<>>
    /\ events = <<>>
    /\ df = <<>>
    /\ slide = <<>>
    /\ ret = <<>>

NextMain ==
    \/ \E k \in 1..5 : ReadExcel(k)
    \/ OpenTemplate
    \/ \E k \in 1..5 : PopulateSlide(k)
    \/ SaveTemp
    \/ StyleOpen
    \/ StyleSave
    \/ RemoveTemp

SpecMain == InitMain /\ [][NextMain]_vars

(***************************************************************************)
(* Claims about the main workflow, checked under SpecMain                  *)
(***************************************************************************)
Saved == \E i \in 1..Len(events) : events[i] = <<"save_temp">>

Missing == SheetNames \ workbook

\* C1: the populate_slide_N calls made so far are always the first calls of
\* the fixed order populate_slide_6, 7, 8, 9, 10, each with its own worksheet
\* and slide index and all with the one Presentation object, so none is
\* called twice or out of order; and once the presentation is saved (or the
\* script has run to its end) all five have been called.
C1_PopulateOnceInOrder ==
    /\ Len(calls) <= Len(PopulateOrder)
    /\ \A i \in 1..Len(calls) :
        /\ calls[i].fn = PopulateOrder[i].fn
        /\ calls[i].df = PopulateOrder[i].df
        /\ calls[i].slide = PopulateOrder[i].slide
        /\ calls[i].prs = prs
        /\ prs # 0
    /\ (Saved \/ pc.at = "done") => Len(calls) = Len(PopulateOrder)

C1_Witness == pc.at = "done" /\ Saved /\ Len(calls) = 5

\* C2: the script never ends with an unhandled exception (every error of
\* every step is caught at the top level).
C2_NoUnhandledException == pc.at # "crashed"

\* C3 as claimed: with exactly one worksheet missing, the script still calls
\* the populate function of each of the other four worksheets and saves.
C3_OneMissingSheetSkipsOneSlide ==
    (Cardinality(Missing) = 1 /\ pc.at \in {"done", "exited"}) =>
        /\ \A k \in 1..5 :
            PopulateOrder[k].df \in workbook =>
                \E i \in 1..Len(calls) : calls[i].fn = PopulateOrder[k].fn
        /\ Saved

\* C3 as amended: with exactly one worksheet missing, the run ends in the
\* except clause of the reads: one FATAL line is printed, exit() is called,
\* no Presentation is created, no populate function is called and no file
\* is written.
C3_OneMissingSheetIsFatal ==
    (Cardinality(Missing) = 1 /\ pc.at \in Terminal) =>
        /\ pc.at = "exited"
        /\ log = <<"FATAL ERROR reading Excel file">>
        /\ prs = 0
        /\ calls = <<>>
        /\ files = {}
        /\ ~Saved

C3_Witness == Cardinality(Missing) = 1 /\ pc.at = "exited"

(***************************************************************************)
(* Python and pandas values                                                *)
(*                                                                         *)
(* A string is a sequence of tokens (words, digit groups, " " for white    *)
(* space); a cell is a string, a number or NaN (an empty worksheet cell).  *)
(* A list is a sequence (Python's index i is i + 1 here); a dict is the    *)
(* sequence of its (key, value) pairs in insertion order.  A DataFrame is  *)
(* its column names and its rows, each row one cell per column, with the   *)
(* default RangeIndex 0 .. n-1.                                            *)
(***************************************************************************)
S(tokens) == [t |-> "str", v |-> tokens]
N(n) == [t |-> "num", v |-> n]
\* The float whole.frac, frac a digit other than 0.
F(whole, frac) == [t |-> "float", v |-> <<whole, frac>>]
NaN == [t |-> "nan", v |-> 0]
\* A value that may be None: None itself, or Some(x) holding the value x.
None == <<>>
Some(x) == <<x>>
Val(o) == o[1]

\* str(cell)
PyStr(c) ==
    IF c.t = "str" THEN c.v
    ELSE IF c.t = "num" THEN <<ToString(c.v)>>
    ELSE IF c.t = "float" THEN <<ToString(c.v[1]), ".", ToString(c.v[2])>>
    ELSE <<"nan">>

\* sub in s, two strings
Contains(s, sub) ==
    \E i \in 0..(Len(s) - Len(sub)) :
        \A j \in 1..Len(sub) : s[i + j] = sub[j]

\* str.lower(), token by token
LowerToken(tok) ==
    CASE tok = "Tools" -> "tools"
      [] tok = "TOOLS" -> "tools"
      [] tok = "Created" -> "created"
      [] tok = "Auto" -> "auto"
      [] tok = "INCs" -> "incs"
      [] tok = "Type" -> "type"
      [] tok = "TYPE" -> "type"
      [] tok = "Closure" -> "closure"
      [] tok = "Total" -> "total"
      [] tok = "Week" -> "week"
      [] tok = "Past" -> "past"
      [] tok = "Weeks" -> "weeks"
      [] tok = "Grand Total" -> "grand total"
      [] OTHER -> tok
Lower(s) == [i \in 1..Len(s) |-> LowerToken(s[i])]

\* s[-4:]
FirstFour(s) == SubSeq(s, 1, IF Len(s) > 4 THEN 4 ELSE Len(s))
LastFour(s) == SubSeq(s, IF Len(s) > 4 THEN Len(s) - 3 ELSE 1, Len(s))

\* s[a:b] for 0 <= a, as list and DataFrame.iloc slicing do it: cut to the length
Slice(s, a, b) ==
    LET hi == IF b < Len(s) THEN b ELSE Len(s)
    IN  IF a >= hi THEN <<>> ELSE SubSeq(s, a + 1, hi)

\* d[k] = v
DictPut(d, k, v) ==
    IF \E i \in 1..Len(d) : d[i].k = k
    THEN [i \in 1..Len(d) |-> IF d[i].k = k THEN [k |-> k, v |-> v] ELSE d[i]]
    ELSE Append(d, [k |-> k, v |-> v])

\* {keys[i]: vals[i] for i in range(len(keys))}
RECURSIVE DictOf(_, _)
DictOf(keys, vals) ==
    IF keys = <<>> THEN <<>>
    ELSE DictPut(DictOf(SubSeq(keys, 1, Len(keys) - 1), SubSeq(vals, 1, Len(vals) - 1)),
                 keys[Len(keys)], vals[Len(vals)])

HasKey(d, k) == \E i \in 1..Len(d) : d[i].k = k
DictGet(d, k) == d[CHOOSE i \in 1..Len(d) : d[i].k = k].v

\* list(df.columns), as positions
Columns(d) == [i \in 1..Len(d.columns) |-> i]
\* df.iloc[a:b, col].tolist(), df.loc[a:b-1, col].tolist() under a RangeIndex
ColumnSlice(d, col, a, b) ==
    LET rows == Slice(d.rows, a, b) IN [i \in 1..Len(rows) |-> rows[i][col]]

\* "Week" in str(h)
IsWeek(h) == Contains(PyStr(h), <<"Week">>)

(***************************************************************************)
(* Main.py, slide 6: _extract_slide6_table_data                            *)
(***************************************************************************)
Raised(e) == [status |-> e, value |-> None]
Returned(v) == [status |-> "ok", value |-> v]

\* data_start_row = header_row_idx + 1
DataStartRowAtHeader(header_row_idx) == header_row_idx
DataStartRow(header_row_idx) == header_row_idx + 1

_extract_slide6_table_data(d, title, header_row_idx, num_data_rows) ==
    IF header_row_idx >= Len(d.rows) THEN Raised("IndexError")
    ELSE
    LET header_row == d.rows[header_row_idx + 1]
        all_week_cols == SelectSeq(Columns(d), LAMBDA col : IsWeek(header_row[col]))
        all_weeks == [i \in 1..Len(all_week_cols) |-> header_row[all_week_cols[i]]]
        last_four_weeks == LastFour(all_weeks)
        week_cols == SelectSeq(Columns(d), LAMBDA col :
                        \E i \in 1..Len(last_four_weeks) :
                            header_row[col] = last_four_weeks[i])
        data_start_row == DataStartRow(header_row_idx)
        data_end_row == data_start_row + num_data_rows
        \* set_index(df.columns[0]) makes the first column the index
        row_labels == ColumnSlice(d, 1, data_start_row, data_end_row)
        data_dict ==
            DictOf([i \in 1..Len(week_cols) |-> header_row[week_cols[i]]],
                   [i \in 1..Len(week_cols) |->
                        ColumnSlice(d, week_cols[i], data_start_row, data_end_row)])
    IN  IF \E i \in 1..Len(week_cols) : week_cols[i] = 1
        THEN Raised("KeyError")
        ELSE Returned([title |-> title, headers |-> last_four_weeks,
                       row_labels |-> row_labels, data |-> data_dict])

(***************************************************************************)
(* Main.py, slide 7: _find_data_row, _extract_data_block_slide7,           *)
(* _extract_stats_data_slide7                                              *)
(***************************************************************************)
\* The index of the first row whose first cell contains label_text, case
\* ignored; -1 when there is none.
_find_data_row_last(d, label_text) ==
    LET hits == {i \in 1..Len(d.rows) :
                    Contains(Lower(PyStr(d.rows[i][1])), Lower(label_text))}
    IN  IF hits = {} THEN -1
        ELSE (CHOOSE i \in hits : \A j \in hits : i >= j) - 1
_find_data_row(d, label_text) ==
    LET hits == {i \in 1..Len(d.rows) :
                    Contains(Lower(PyStr(d.rows[i][1])), Lower(label_text))}
    IN  IF hits = {} THEN -1
        ELSE (CHOOSE i \in hits : \A j \in hits : i <= j) - 1

\* df.iloc[i] for i >= -1: a negative index counts from the end
Iloc(d, i) == IF i < 0 THEN d.rows[Len(d.rows) + 1 + i] ELSE d.rows[i + 1]

\* header_row_idx = start_row_idx - 1
HeaderRowIdxSlide7(start_row_idx) == start_row_idx - 1

_extract_data_block_slide7(d, start_label, num_rows) ==
    LET start_row_idx == _find_data_row(d, start_label) IN
    IF start_row_idx = -1 THEN Returned([categories |-> None, data |-> None])
    ELSE
    LET header_row_idx == HeaderRowIdxSlide7(start_row_idx)
        header_row == Iloc(d, header_row_idx)
        all_week_cols == SelectSeq(Columns(d), LAMBDA col : IsWeek(header_row[col]))
        last_four_week_cols == LastFour(all_week_cols)
        last_four_week_headers ==
            [i \in 1..Len(last_four_week_cols) |-> PyStr(header_row[last_four_week_cols[i]])]
        data_end_row == start_row_idx + num_rows
        categories == ColumnSlice(d, 1, start_row_idx, data_end_row)
        data_dict ==
            DictOf(last_four_week_headers,
                   [i \in 1..Len(last_four_week_cols) |->
                        ColumnSlice(d, last_four_week_cols[i], start_row_idx, data_end_row)])
    IN  Returned([categories |-> Some(categories), data |-> Some(data_dict)])

INCS_CREATED == <<"INCs", " ", "created">>
INCS_RESOLVED == <<"INCs", " ", "resolved">>

_extract_stats_data_slide7(d) ==
    IF Len(d.rows) = 0 THEN Raised("IndexError")
    ELSE
    LET inc_header_row == d.rows[1]
        all_week_cols == SelectSeq(Columns(d), LAMBDA col : IsWeek(inc_header_row[col]))
        last_four_week_cols == LastFour(all_week_cols)
        last_four_week_headers ==
            [i \in 1..Len(last_four_week_cols) |->
                PyStr(inc_header_row[last_four_week_cols[i]])]
        created_row_idx == _find_data_row(d, INCS_CREATED)
        resolved_row_idx == _find_data_row(d, INCS_RESOLVED)
    IN  IF created_row_idx = -1 \/ resolved_row_idx = -1
        THEN Returned([categories |-> None, data |-> None])
        ELSE Returned(
            [categories |-> Some(<<S(INCS_CREATED), S(INCS_RESOLVED)>>),
             data |-> Some(DictOf(last_four_week_headers,
                        [i \in 1..Len(last_four_week_cols) |->
                            <<d.rows[created_row_idx + 1][last_four_week_cols[i]],
                              d.rows[resolved_row_idx + 1][last_four_week_cols[i]]>>]))])

(***************************************************************************)
(* The week-column extractions of slides 6 and 7 on bounded worksheets     *)
(***************************************************************************)
\* Data columns of a generated worksheet (beside the first, label column).
NumDataCols == 5
\* Rows of a generated worksheet.
MaxRows == 3
\* Largest header_row_idx and num_data_rows (num_rows) a call is made with.
MaxHeaderIdx == 1
MaxNumRows == 2

\* A header cell: a week label of its own, a week label shared with every
\* other "dup" column, or a label that is no week.
HeaderKinds == {"week", "dup", "other"}
HeaderCell(kind, c) ==
    CASE kind = "week" -> S(<<"Week", " ", ToString(c)>>)
      [] kind = "dup" -> S(<<"Week", " ", "0">>)
      [] OTHER -> S(<<"Total">>)

\* The label in the first column of row r (0-based).
RowLabel(r) == <<"P", ToString(r)>>

\* A worksheet of nrows rows whose row hr is a header row (an empty first
\* cell, then the header cells) and whose other rows are data rows: a label,
\* then one number per column, different in every cell.
WeekSheet(kinds, nrows, hr) ==
    [columns |-> [c \in 1..(Len(kinds) + 1) |-> c - 1],
     rows |-> [i \in 1..nrows |->
        [c \in 1..(Len(kinds) + 1) |->
            IF c = 1 THEN (IF i - 1 = hr THEN NaN ELSE S(RowLabel(i - 1)))
            ELSE IF i - 1 = hr THEN HeaderCell(kinds[c - 1], c - 1)
            ELSE N(10 * (i - 1) + (c - 1))]]]

Call(fn, args, res) == [fn |-> fn, args |-> args, res |-> res]

InitWeeks ==
    /\ \E kinds \in [1..NumDataCols -> HeaderKinds], nrows \in 0..MaxRows :
        \E hr \in 0..(IF nrows = 0 THEN 0 ELSE nrows - 1) :
            df = WeekSheet(kinds, nrows, hr)
    /\ slide = <<>>
    /\ ret = <<>>
    /\ pc = At("call", 0)
    /\ workbook = {}
    /\ dfs = {}
    /\ prs = 0
    /\ calls = <<>>
    /\ files = {}
    /\ log = <<>>
    /\ events = <<>>

CallExtractSlide6 ==
    /\ ret = <<>>
    /\ \E h \in 0..MaxHeaderIdx, n \in 1..MaxNumRows :
        ret' = <<Call("_extract_slide6_table_data", <<h, n>>,
                      _extract_slide6_table_data(df, "INC", h, n))>>
    /\ UNCHANGED <<df, slide>>
    /\ UNCHANGED mainVars

CallExtractBlockSlide7 ==
    /\ ret = <<>>
    /\ \E r \in 0..MaxRows, n \in 1..MaxNumRows :
        ret' = <<Call("_extract_data_block_slide7", <<r, n>>,
                      _extract_data_block_slide7(df, RowLabel(r), n))>>
    /\ UNCHANGED <<df, slide>>
    /\ UNCHANGED mainVars

NextWeeks ==
    \/ CallExtractSlide6
    \/ CallExtractBlockSlide7

SpecWeeks == InitWeeks /\ [][NextWeeks]_vars

\* The columns of row hdr whose cell contains "Week", in sheet order.
WeekColumnsOf(hdr) ==
    SelectSeq([c \in 1..Len(hdr) |-> c], LAMBDA c : Contains(PyStr(hdr[c]), <<"Week">>))

\* The cells of column col in the rows with (0-based) index first .. last.
CellsOf(col, first, last) ==
    LET hi == IF last < Len(df.rows) - 1 THEN last ELSE Len(df.rows) - 1
    IN  [i \in 1..(IF hi < first THEN 0 ELSE hi - first + 1) |-> df.rows[first + i][col]]

\* C7 as claimed: both extractions return one series for each of the last
\* four week columns of the header row (all of them when there are fewer),
\* in sheet order, and the series of a column holds the cells of that column.
C7_LastFourWeekColumns ==
    \A k \in 1..Len(ret) :
        LET c == ret[k]
            v == c.res.value
        IN  /\ (c.fn = "_extract_slide6_table_data" /\ c.res.status = "ok") =>
                LET hdr == df.rows[c.args[1] + 1]
                    sel == LastFour(WeekColumnsOf(hdr))
                IN  /\ Len(v.headers) = Len(sel)
                    /\ Len(v.data) = Len(sel)
                    /\ \A j \in 1..Len(sel) :
                        /\ v.headers[j] = hdr[sel[j]]
                        /\ HasKey(v.data, hdr[sel[j]])
                        /\ DictGet(v.data, hdr[sel[j]])
                            = CellsOf(sel[j], c.args[1] + 1, c.args[1] + c.args[2])
            /\ (c.fn = "_extract_data_block_slide7" /\ v.data # None) =>
                LET start == CHOOSE r \in 0..(Len(df.rows) - 1) :
                                df.rows[r + 1][1] = S(RowLabel(c.args[1]))
                    hdr == df.rows[IF start = 0 THEN Len(df.rows) ELSE start]
                    sel == LastFour(WeekColumnsOf(hdr))
                IN  /\ Len(Val(v.data)) = Len(sel)
                    /\ \A j \in 1..Len(sel) :
                        /\ Val(v.data)[j].k = PyStr(hdr[sel[j]])
                        /\ Val(v.data)[j].v = CellsOf(sel[j], start, start + c.args[2] - 1)

\* C8: _extract_slide6_table_data returns as row labels the first cells of
\* the rows header_row_idx + 1 .. header_row_idx + num_data_rows (those of
\* them the sheet has), in sheet order, and for every returned header h the
\* list data[h] holds, row by row, the cells of those same rows in one
\* column whose header cell is h.
C8_RowsBelowHeader ==
    \A k \in 1..Len(ret) :
        LET c == ret[k]
            v == c.res.value
            h == c.args[1]
            n == c.args[2]
        IN  (c.fn = "_extract_slide6_table_data" /\ c.res.status = "ok") =>
                LET avail == Len(df.rows) - h - 1
                    cnt == IF avail < n THEN avail ELSE n
                IN  /\ Len(v.row_labels) = cnt
                    /\ \A i \in 1..cnt : v.row_labels[i] = df.rows[h + 1 + i][1]
                    /\ \A j \in 1..Len(v.headers) :
                        /\ HasKey(v.data, v.headers[j])
                        /\ Len(DictGet(v.data, v.headers[j])) = cnt
                        /\ \E col \in 2..Len(df.columns) :
                            /\ df.rows[h + 1][col] = v.headers[j]
                            /\ \A i \in 1..cnt :
                                DictGet(v.data, v.headers[j])[i] = df.rows[h + 1 + i][col]

C8_Witness ==
    /\ Len(ret) = 1
    /\ ret[1].fn = "_extract_slide6_table_data"
    /\ ret[1].res.status = "ok"
    /\ ret[1].args = <<0, 2>>
    /\ Len(df.rows) = 3
    /\ Len(ret[1].res.value.headers) = 4
    /\ Len(ret[1].res.value.row_labels) = 2
    /\ ret[1].res.value.row_labels[1] = S(RowLabel(1))

(***************************************************************************)
(* Main.py, slide 10: _extract_data_for_slide10                            *)
(***************************************************************************)
\* str.strip(): without its leading and trailing white space
StripOnce(s) ==
    LET a == IF Len(s) > 0 /\ s[1] = " " THEN 2 ELSE 1
        b == IF Len(s) > 1 /\ s[Len(s)] = " " THEN Len(s) - 1 ELSE Len(s)
    IN  SubSeq(s, a, b)
Strip(s) ==
    LET keep == {i \in 1..Len(s) : s[i] # " "}
    IN  IF keep = {} THEN <<>>
        ELSE SubSeq(s, CHOOSE i \in keep : \A j \in keep : i <= j,
                       CHOOSE i \in keep : \A j \in keep : i >= j)

\* The largest number a worksheet cell holds.
MaxCellValue == 99
IsDigits(tok) == \E n \in 0..MaxCellValue : ToString(n) = tok

\* int(val): a number is cut to its whole part, a string is parsed (white
\* space around the digits allowed); anything else raises ValueError.
PyInt(c) ==
    IF c.t = "num" THEN Returned(c.v)
    ELSE IF c.t = "float" THEN Returned(c.v[1])
    ELSE IF c.t = "str" /\ Len(Strip(c.v)) = 1 /\ IsDigits(Strip(c.v)[1])
    THEN Returned(CHOOSE n \in 0..MaxCellValue : ToString(n) = Strip(c.v)[1])
    ELSE Raised("ValueError")

BUSINESS_SERVICE_INC == <<"Business Service - INC">>
BUSINESS_SERVICE_RITM == <<"Business Service - RITM">>
BUSINESS_SERVICE_CR == <<"Business Service - Change Requests">>
target_table_titles_reversed ==
    <<BUSINESS_SERVICE_CR, BUSINESS_SERVICE_RITM, BUSINESS_SERVICE_INC>>
target_table_titles == <<BUSINESS_SERVICE_INC, BUSINESS_SERVICE_RITM, BUSINESS_SERVICE_CR>>
GRAND_TOTAL == <<"Grand Total">>

\* df[0] = df[0].astype(str).str.strip()
StripFirstColumn(d) ==
    [d EXCEPT !.rows =
        [i \in 1..Len(d.rows) |-> [d.rows[i] EXCEPT ![1] = S(Strip(PyStr(@)))]]]

\* The least element of a non-empty set of integers (index[0]).
LastOf(set) == CHOOSE i \in set : \A j \in set : i >= j
First(set) == CHOOSE i \in set : \A j \in set : i <= j

\* for i in range(header_row_index + 1, end_index + 1): the data rows, or
\* ValueError at the first cell int() rejects.  Rows are 0-based indexes.
RECURSIVE Slide10DataRows(_, _, _)
Slide10DataRows(d, i, end_index) ==
    IF i > end_index THEN Returned(<<>>)
    ELSE
    LET current_row == d.rows[i + 1]
        row_title == Strip(PyStr(current_row[1]))
        cells == LastFour(current_row)
        rest == Slide10DataRows(d, i + 1, end_index)
    IN  IF row_title = <<>> THEN rest
        ELSE IF \E j \in 1..Len(cells) : PyInt(cells[j]).status # "ok"
        THEN Raised("ValueError")
        ELSE IF rest.status # "ok" THEN rest
        ELSE Returned(<<(<<row_title>> \o [j \in 1..Len(cells) |-> PyInt(cells[j]).value])>>
                      \o rest.value)

\* The body of the try block for one table title, after the first column
\* has been stripped: "continue" when the title row, the Grand Total row or
\* the header row is not found, the exception raised, or the table.
Slide10Table(d, table_title) ==
    LET title_rows == {i \in 0..(Len(d.rows) - 1) : d.rows[i + 1][1] = S(table_title)} IN
    IF title_rows = {} THEN Raised("continue")
    ELSE
    LET start_index == First(title_rows)
        grand_total_rows == {i \in start_index..(Len(d.rows) - 1) :
                                d.rows[i + 1][1] = S(GRAND_TOTAL)}
    IN
    IF grand_total_rows = {} THEN Raised("continue")
    ELSE
    LET end_index == First(grand_total_rows)
        header_rows == {idx \in start_index..(end_index - 1) :
                            \E j \in 1..Len(LastFour(d.rows[idx + 1])) :
                                IsWeek(LastFour(d.rows[idx + 1])[j])}
    IN
    IF header_rows = {} THEN Raised("continue")
    ELSE
    LET header_row_index == First(header_rows)
        header_row == d.rows[header_row_index + 1]
        week_labels == [j \in 1..Len(LastFour(header_row)) |->
                            Strip(PyStr(LastFour(header_row)[j]))]
        headers == <<table_title>> \o week_labels
        data_rows == Slide10DataRows(d, header_row_index + 1, end_index)
    IN  IF data_rows.status # "ok" THEN data_rows
        ELSE Returned([title |-> table_title, headers |-> headers,
                       data |-> data_rows.value])

\* The loop ended by the first exception.
RECURSIVE Slide10LoopStopping(_, _)
Slide10LoopStopping(d, k) ==
    IF k > Len(target_table_titles)
    THEN [df |-> d, tables |-> <<>>, printed |-> <<>>]
    ELSE
    LET stripped == StripFirstColumn(d)
        one == Slide10Table(stripped, target_table_titles[k])
        rest == IF one.status \in {"ok", "continue"}
                THEN Slide10LoopStopping(stripped, k + 1)
                ELSE [df |-> stripped, tables |-> <<>>, printed |-> <<>>]
    IN  [df |-> rest.df,
         tables |-> (IF one.status = "ok" THEN <<one.value>> ELSE <<>>) \o rest.tables,
         printed |-> (IF one.status \in {"ok", "continue"} THEN <<>>
                      ELSE <<<<"ERROR processing table", target_table_titles[k]>>>>)
                     \o rest.printed]

\* The loop over target_table_titles from the k-th title on: each pass first
\* strips the first column of df in place, then reads the table from it.
\* The result is the DataFrame as left behind, the tables appended and the
\* error lines printed.
RECURSIVE Slide10Loop(_, _)
Slide10Loop(d, k) ==
    IF k > Len(target_table_titles)
    THEN [df |-> d, tables |-> <<>>, printed |-> <<>>]
    ELSE
    LET stripped == StripFirstColumn(d)
        one == Slide10Table(stripped, target_table_titles[k])
        rest == Slide10Loop(stripped, k + 1)
    IN  [df |-> rest.df,
         tables |-> (IF one.status = "ok" THEN <<one.value>> ELSE <<>>) \o rest.tables,
         printed |-> (IF one.status \in {"ok", "continue"} THEN <<>>
                      ELSE <<<<"ERROR processing table", target_table_titles[k]>>>>)
                     \o rest.printed]

_extract_data_for_slide10(d) == Slide10Loop(d, 1)

(***************************************************************************)
(* Main.py, slide 8: _extract_pending_data_slide8 and the extraction part  *)
(* of populate_slide_8                                                     *)
(***************************************************************************)
WEEK_COLUMN_LABEL == <<"Week #">>
inc_series_labels == <<<<"Pending INCs">>, <<"INCs Resolved">>, <<"Total INCs Created">>>>
ritm_series_labels == <<<<"Pending RITMs">>, <<"RITMs Fulfilled">>, <<"Total RITMs Created">>>>

\* The positions of the columns named label.
ColumnsNamed(d, label) == {i \in 1..Len(d.columns) : d.columns[i] = label}

\* df.tail(4)[label]: one column when one column has that name, no column
\* (KeyError) or several (a DataFrame, which has no tolist) otherwise.
TailColumn(d, label) ==
    LET last_four_rows == LastFour(d.rows) IN
    IF ColumnsNamed(d, label) = {} THEN Raised("KeyError")
    ELSE IF Cardinality(ColumnsNamed(d, label)) > 1 THEN Raised("AttributeError")
    ELSE Returned([i \in 1..Len(last_four_rows) |->
                    last_four_rows[i][First(ColumnsNamed(d, label))]])

_extract_pending_data_slide8(d, series_labels, week_column_label) ==
    LET valid_series_labels ==
            SelectSeq(series_labels, LAMBDA label : ColumnsNamed(d, label) # {})
        week == TailColumn(d, week_column_label)
        series == [i \in 1..Len(valid_series_labels) |-> TailColumn(d, valid_series_labels[i])]
    IN  IF valid_series_labels = <<>>
        THEN Returned([categories |-> None, data |-> None])
        ELSE IF week.status # "ok" THEN week
        ELSE IF \E i \in 1..Len(series) : series[i].status # "ok"
        THEN Raised("AttributeError")
        ELSE Returned(
            [categories |-> Some([i \in 1..Len(week.value) |-> PyStr(week.value[i])]),
             data |-> Some(DictOf(valid_series_labels,
                                  [i \in 1..Len(series) |-> series[i].value]))])

\* df.columns = df.columns.str.strip()
StripColumns(d) == [d EXCEPT !.columns = [i \in 1..Len(d.columns) |-> Strip(d.columns[i])]]

\* populate_slide_8 up to the two extractions: the DataFrame as left behind
\* and what the two calls returned (the second is not made when the first
\* raises).
Slide8Extraction(d) ==
    LET stripped == StripColumns(d)
        inc == _extract_pending_data_slide8(stripped, inc_series_labels, WEEK_COLUMN_LABEL)
        ritm == _extract_pending_data_slide8(stripped, ritm_series_labels, WEEK_COLUMN_LABEL)
    IN  [df |-> stripped, inc |-> inc, ritm |-> IF inc.status = "ok" THEN ritm ELSE inc]

(***************************************************************************)
(* The extractions that modify their DataFrame, on bounded worksheets      *)
(***************************************************************************)
\* Rows of a generated 'Business Services' worksheet, and its columns.
MaxRows10 == 4
NumCols10 == 6
\* Rows of a generated 'Pending Counts' worksheet.
MaxRows8 == 5
\* Calls made on one DataFrame object.
MaxCalls == 2

\* White space around a worksheet string, by the row (or column) it is in.
Pad(r, s) ==
    CASE r % 3 = 1 -> <<" ", " ">> \o s
      [] r % 3 = 2 -> s \o <<" ">>
      [] OTHER -> s

RowKinds10 ==
    {"tINC", "tRITM", "tCR", "wINC", "wRITM", "hdr", "data", "blank", "bad", "total"}

\* Row r (0-based) of a 'Business Services' worksheet as read with
\* header=None and fillna(0): a title row, a title row that holds the week
\* labels as well, a header row (week labels in every column), a data row (a note holding "Week" in column 1, outside the last
\* four cells; whole numbers and one float), a data row whose first cell is
\* white space, a data row with a text in a number cell, a Grand Total row.
Row10(kind, r) ==
    [c \in 1..NumCols10 |->
        IF c = 1 THEN
            CASE kind \in {"tINC", "wINC"} -> S(Pad(r, BUSINESS_SERVICE_INC))
              [] kind \in {"tRITM", "wRITM"} -> S(Pad(r, BUSINESS_SERVICE_RITM))
              [] kind = "tCR" -> S(Pad(r, BUSINESS_SERVICE_CR))
              [] kind = "hdr" -> N(0)
              [] kind = "blank" -> S(<<" ">>)
              [] kind = "total" -> S(Pad(r, GRAND_TOTAL))
              [] OTHER -> S(Pad(r, <<"Service", ToString(r)>>))
        ELSE IF kind \in {"tINC", "tRITM", "tCR"} THEN N(0)
        ELSE IF kind \in {"hdr", "wINC", "wRITM"}
        THEN S(<<" ", "Week", " ", ToString(c - 1)>>)
        ELSE IF c = 2 THEN S(<<"Week", "ly">>)
        ELSE IF c = NumCols10 /\ kind = "bad" THEN S(<<"n/a">>)
        ELSE IF c = NumCols10 THEN F(10 * r + c - 1, 5)
        ELSE N(10 * r + c - 1)]

Slide10Sheet(kinds) ==
    [columns |-> [c \in 1..NumCols10 |-> c - 1],
     rows |-> [i \in 1..Len(kinds) |-> Row10(kinds[i], i - 1)]]

ColumnStates8 == {"absent", "plain", "padded"}
ColumnNames8 ==
    <<WEEK_COLUMN_LABEL, <<"Pending INCs">>, <<"Total INCs Created">>,
      <<"RITMs Fulfilled">>, <<"Total RITMs Created">>>>

\* A 'Pending Counts' worksheet: each of the five columns is absent, named
\* exactly or named with white space around the name; the 'Week #' cells
\* are week numbers, the others counts, different in every cell.
Slide8Sheet(states, nrows) ==
    LET present == SelectSeq([i \in 1..Len(ColumnNames8) |-> i],
                             LAMBDA i : states[i] # "absent")
    IN  [columns |-> [j \in 1..Len(present) |->
                        IF states[present[j]] = "padded"
                        THEN <<" ", " ">> \o ColumnNames8[present[j]] \o <<" ">>
                        ELSE ColumnNames8[present[j]]],
         rows |-> [i \in 1..nrows |->
                    [j \in 1..Len(present) |->
                        IF present[j] = 1 THEN N(20 + i) ELSE N(10 * i + present[j])]]]

InitFrames ==
    /\ \/ /\ pc = At("slide10", 0)
          /\ \E n \in 0..MaxRows10 : \E kinds \in [1..n -> RowKinds10] :
                df = Slide10Sheet(kinds)
       \/ /\ pc = At("slide8", 0)
          /\ \E states \in [1..Len(ColumnNames8) -> ColumnStates8], nrows \in 0..MaxRows8 :
                df = Slide8Sheet(states, nrows)
    /\ slide = <<>>
    /\ ret = <<>>
    /\ workbook = {}
    /\ dfs = {}
    /\ prs = 0
    /\ calls = <<>>
    /\ files = {}
    /\ log = <<>>
    /\ events = <<>>

\* all_tables_data = _extract_data_for_slide10(df)
CallExtractSlide10 ==
    /\ pc = At("slide10", 0)
    /\ Len(ret) < MaxCalls
    /\ LET r == _extract_data_for_slide10(df)
       IN  /\ df' = r.df
           /\ ret' = Append(ret, Call("_extract_data_for_slide10", <<df>>,
                                      [status |-> "ok", value |-> r.tables,
                                       printed |-> r.printed]))
    /\ UNCHANGED slide
    /\ UNCHANGED mainVars

\* populate_slide_8, its extraction
CallSlide8Extraction ==
    /\ pc = At("slide8", 0)
    /\ Len(ret) < MaxCalls
    /\ LET r == Slide8Extraction(df)
       IN  /\ df' = r.df
           /\ ret' = Append(ret, Call("populate_slide_8", <<df>>,
                                      [status |-> r.ritm.status,
                                       value |-> <<r.inc.value, r.ritm.value>>,
                                       printed |-> <<>>]))
    /\ UNCHANGED slide
    /\ UNCHANGED mainVars

NextFrames ==
    \/ CallExtractSlide10
    \/ CallSlide8Extraction

SpecFrames == InitFrames /\ [][NextFrames]_vars

\* The rows (0-based) of df from lo to hi whose first cell is the string s.
RowsTitled(s, lo, hi) == {r \in lo..hi : df.rows[r + 1][1] = [t |-> "str", v |-> s]}
\* r is the least row of rows.
IsFirstOf(r, rows) == r \in rows /\ \A q \in rows : r <= q
\* One of the last four cells of row r holds "Week".
WeekInLastFour(r) ==
    \E c \in 1..Len(df.columns) :
        /\ c > Len(df.columns) - 4
        /\ \E i \in 1..Len(PyStr(df.rows[r + 1][c])) : PyStr(df.rows[r + 1][c])[i] = "Week"
\* The whole-number value of a number cell.
IntegerValue(c) == IF c.t = "num" THEN c.v ELSE IF c.t = "float" THEN c.v[1] ELSE -1
\* Row r as a data row: its title, then the integer values of its last four cells.
DataRowOf(r) ==
    <<df.rows[r + 1][1].v>> \o
    [j \in 1..4 |-> IntegerValue(df.rows[r + 1][Len(df.columns) - 4 + j])]

\* Table tb was read from the block start .. end of df with header row hdr,
\* and its data rows are the rows of `taken`, in sheet order.
Slide10TableIs(tb, taken(_, _)) ==
    \E start, end, hdr \in 0..(Len(df.rows) - 1) :
        /\ IsFirstOf(start, RowsTitled(tb.title, 0, Len(df.rows) - 1))
        /\ IsFirstOf(end, RowsTitled(<<"Grand Total">>, start, Len(df.rows) - 1))
        /\ IsFirstOf(hdr, {r \in start..(end - 1) : WeekInLastFour(r)})
        /\ LET rows == SelectSeq([i \in 1..(end - hdr) |-> hdr + i],
                                 LAMBDA r : taken(r, end))
           IN  /\ Len(tb.data) = Len(rows)
               /\ \A i \in 1..Len(rows) : tb.data[i] = DataRowOf(rows[i])

\* C9 as claimed: every table _extract_data_for_slide10 returns starts at
\* the first row whose stripped first cell is its title and ends at the first
\* Grand Total row at or after it, and its data rows are exactly the rows
\* after the header row through the Grand Total row, in sheet order, each as
\* the row title followed by the integer values of the row's last four cells.
C9_AllRowsThroughGrandTotal ==
    \A k \in 1..Len(ret) :
        ret[k].fn = "_extract_data_for_slide10" =>
            \A i \in 1..Len(ret[k].res.value) :
                Slide10TableIs(ret[k].res.value[i], LAMBDA r, end : TRUE)

\* C9 as amended: the same, but a row whose stripped first cell is empty is
\* left out of the data rows.
C9_TitledRowsThroughGrandTotal ==
    \A k \in 1..Len(ret) :
        ret[k].fn = "_extract_data_for_slide10" =>
            \A i \in 1..Len(ret[k].res.value) :
                Slide10TableIs(ret[k].res.value[i],
                               LAMBDA r, end : df.rows[r + 1][1].v # <<>>)

\* A table was returned whose block holds a row with an empty title between
\* the header row and the Grand Total row, read from a title cell that had
\* white space around it.
C9_Witness ==
    /\ Len(ret) = 1
    /\ ret[1].fn = "_extract_data_for_slide10"
    /\ ret[1].args[1] # df
    /\ Len(ret[1].res.value) = 1
    /\ Len(ret[1].res.value[1].data) = 1
    /\ ret[1].res.value[1].data[1][1] = <<"Grand Total">>
    /\ Len(df.rows) = 4
    /\ df.rows[3][1].v = <<>>

\* C10: a second (and any later) call of _extract_data_for_slide10, or of
\* populate_slide_8's extraction, on the DataFrame object an earlier call
\* has modified returns what the first call returned.
C10_SecondCallSameResult ==
    \A k \in 2..Len(ret) : ret[k].res = ret[1].res

\* Two calls were made, the first modified the DataFrame (it stripped white
\* space) and returned a table.
C10_Witness ==
    /\ Len(ret) = 2
    /\ ret[1].fn = "_extract_data_for_slide10"
    /\ ret[1].args[1] # ret[2].args[1]
    /\ ret[2].args[1] = df
    /\ Len(ret[1].res.value) >= 1

(***************************************************************************)
(* Slides and shapes                                                       *)
(*                                                                         *)
(* A slide is the sequence of its shapes.  A shape has a name and a kind:  *)
(* a text box (its paragraphs), a table (the texts written to its cells,   *)
(* by (row, column)), a chart (its chart data) or a picture.  A text box   *)
(* always has a first paragraph, as a text frame does.  Template           *)
(* tables are taken to be large enough for every cell written.  Fonts,     *)
(* sizes, positions and axis scales are recorded as one format tag.        *)
(* A function that works on a slide runs on a record of the slide's        *)
(* shapes, the lines printed, the shape names looked up and a status that  *)
(* is "ok" until an exception is raised; a raised exception ends the run.  *)
(***************************************************************************)
Shape(name, kind) ==
    [name |-> name, kind |-> kind, paras |-> <<>>, cells |-> <<>>,
     chart |-> <<>>, fmt |-> ""]
TextBox(name, paras) == [Shape(name, "text") EXCEPT !.paras = paras]
Table(name) == Shape(name, "table")
Picture(name) == Shape(name, "picture")
Chart(type, title, categories, series, fmt) ==
    [Shape("Chart", "chart") EXCEPT
        !.chart = <<[type |-> type, title |-> title, categories |-> categories,
                     series |-> series]>>,
        !.fmt = fmt]

Run(shapes) == [status |-> "ok", shapes |-> shapes, printed |-> <<>>, lookups |-> <<>>]
Raise(st, e) == [st EXCEPT !.status = e]
\* print(line), reached only while no exception has been raised
Printing(st, line) ==
    IF st.status # "ok" THEN st ELSE [st EXCEPT !.printed = Append(@, line)]

\* The position of the first shape called name, 0 (None) when there is none.
ShapeIndex(shapes, name) ==
    IF \E i \in 1..Len(shapes) : shapes[i].name = name
    THEN First({i \in 1..Len(shapes) : shapes[i].name = name})
    ELSE 0

\* find_shape_by_name: the run after the lookup (a warning is printed when
\* no shape has the name); ShapeIndex gives what it returns.
find_shape_by_name(st, name) ==
    LET looked == [st EXCEPT !.lookups = Append(@, name)]
    IN  IF ShapeIndex(st.shapes, name) = 0
        THEN Printing(looked, <<"Warning: Shape not found", name>>)
        ELSE looked

\* shape.text_frame.text: the paragraphs joined by line breaks
RECURSIVE JoinParas(_)
JoinParas(paras) ==
    IF paras = <<>> THEN <<>>
    ELSE IF Len(paras) = 1 THEN paras[1]
    ELSE paras[1] \o <<"\n">> \o JoinParas(Tail(paras))

\* re.search(r'Week\s*(\d+)', s): the digits of the first match, or None
WeekNumber(s) ==
    LET hits == {i \in 1..Len(s) :
                    /\ s[i] = "Week"
                    /\ \E j \in (i + 1)..Len(s) :
                        /\ IsDigits(s[j])
                        /\ \A q \in (i + 1)..(j - 1) : s[q] = " "}
    IN  IF hits = {} THEN None
        ELSE LET i == First(hits)
                 j == First({q \in (i + 1)..Len(s) : s[q] # " "})
             IN  Some(s[j])

\* re.search(r'\d+', s): the first digits, or None
FirstDigits(s) ==
    IF \E i \in 1..Len(s) : IsDigits(s[i])
    THEN Some(s[First({i \in 1..Len(s) : IsDigits(s[i])})])
    ELSE None

\* original_text.replace('$', week_num)
RECURSIVE ReplaceDollar(_, _)
ReplaceDollar(s, week_num) ==
    IF s = <<>> THEN <<>>
    ELSE (IF s[1] = "$" THEN <<week_num>> ELSE <<s[1]>>) \o ReplaceDollar(Tail(s), week_num)

\* The length of the match of (past)(\s+)(weeks), case ignored, at the start
\* of s; 0 when s does not start with one.
PastWeeksAt(s) ==
    IF Len(s) >= 3 /\ LowerToken(s[1]) = "past" /\ s[2] = " "
       /\ \E j \in 3..Len(s) : s[j] # " "
    THEN LET j == First({q \in 3..Len(s) : s[q] # " "})
         IN  IF LowerToken(s[j]) = "weeks" THEN j ELSE 0
    ELSE 0

\* re.sub(r"(past)(\s+)(weeks)", rf"\1 {week_num} \3", s, flags=re.IGNORECASE)
RECURSIVE SubPastWeeks(_, _)
SubPastWeeks(s, week_num) ==
    IF s = <<>> THEN <<>>
    ELSE IF PastWeeksAt(s) > 0
    THEN <<s[1], " ", week_num, " ", s[PastWeeksAt(s)]>>
         \o SubPastWeeks(SubSeq(s, PastWeeksAt(s) + 1, Len(s)), week_num)
    ELSE <<s[1]>> \o SubPastWeeks(Tail(s), week_num)

\* format_main_title(shape, last_week), shape being shapes[i] (i = 0: None)
format_main_title(st, i, last_week) ==
    IF i = 0 \/ st.shapes[i].kind # "text" THEN st
    ELSE
    LET week_num == WeekNumber(PyStr(last_week)) IN
    IF week_num = None
    THEN Printing(st, <<"Warning: Could not extract week number from title.">>)
    ELSE
    LET original_text == JoinParas(st.shapes[i].paras)
        new_text == IF \E q \in 1..Len(original_text) : original_text[q] = "$"
                    THEN ReplaceDollar(original_text, Val(week_num))
                    ELSE SubPastWeeks(original_text, Val(week_num))
    IN  [st EXCEPT !.shapes[i].paras[1] = new_text,
                   !.shapes[i].fmt = "Arial 22 bold centered"]

\* table.cell(r, c).text = text, for each write in turn
RECURSIVE WriteCells(_, _)
WriteCells(cells, writes) ==
    IF writes = <<>> THEN cells
    ELSE WriteCells(DictPut(cells, writes[1].k, writes[1].v), Tail(writes))

\* The concatenation of a sequence of sequences.
RECURSIVE Flatten(_)
Flatten(ss) == IF ss = <<>> THEN <<>> ELSE ss[1] \o Flatten(Tail(ss))

\* 'total' in str(label).lower()
IsTotal(s) == Contains(Lower(s), <<"total">>)

(***************************************************************************)
(* Main.py, slide 6: _populate_table_slide6, _add_line_chart_slide6,       *)
(* populate_slide_6                                                        *)
(***************************************************************************)
\* The cell writes of _populate_table_slide6, in order.
Slide6Writes(table_data) ==
    [i \in 1..Len(table_data.headers) |->
        [k |-> <<0, i>>, v |-> PyStr(table_data.headers[i])]]
    \o Flatten([r \in 1..Len(table_data.row_labels) |->
        <<[k |-> <<r, 0>>, v |-> table_data.row_labels[r].v]>>
        \o [c \in 1..Len(table_data.headers) |->
            [k |-> <<r, c>>,
             v |-> PyStr(DictGet(table_data.data, table_data.headers[c])[r])]]])

\* _populate_table_slide6(table_shape, table_data), table_shape being
\* shapes[i]: a label that is no string cannot be a cell's text.
_populate_table_slide6_unguarded(st, i, table_data) ==
    IF st.status # "ok" THEN st
    ELSE IF i = 0 THEN Raise(st, "AttributeError")
    ELSE [st EXCEPT !.shapes[i].cells = WriteCells(@, Slide6Writes(table_data)),
                    !.shapes[i].fmt = "Aptos 11 centered"]
_populate_table_slide6(st, i, table_data) ==
    IF st.status # "ok" THEN st
    ELSE IF i = 0 \/ st.shapes[i].kind # "table" THEN st
    ELSE IF \E r \in 1..Len(table_data.row_labels) : table_data.row_labels[r].t # "str"
    THEN Raise(st, "TypeError")
    ELSE [st EXCEPT !.shapes[i].cells = WriteCells(@, Slide6Writes(table_data)),
                    !.shapes[i].fmt = "Aptos 11 centered"]

\* _add_line_chart_slide6: one series per row label that holds no 'total',
\* its values read across the headers.
_add_line_chart_slide6(st, position, table_data, num_gridlines) ==
    IF st.status # "ok" THEN st
    ELSE IF \E r \in 1..Len(table_data.row_labels) : table_data.row_labels[r].t # "str"
    THEN Raise(st, "AttributeError")
    ELSE
    LET rows == SelectSeq([r \in 1..Len(table_data.row_labels) |-> r],
                          LAMBDA r : ~IsTotal(table_data.row_labels[r].v))
        series == [q \in 1..Len(rows) |->
                    [name |-> table_data.row_labels[rows[q]].v,
                     values |-> [c \in 1..Len(table_data.headers) |->
                        DictGet(table_data.data, table_data.headers[c])[rows[q]]]]]
    IN  [st EXCEPT !.shapes = Append(@,
            Chart("LINE_MARKERS", <<table_data.title, " ", "Resolved">>,
                  table_data.headers, series, position))]

\* for shape in list(slide.shapes): if shape.has_chart: remove it
KeepCharts(st) == st
RemoveCharts(st) ==
    IF st.status # "ok" THEN st
    ELSE [st EXCEPT !.shapes = SelectSeq(@, LAMBDA sh : sh.kind # "chart")]

INC_HEADER_ROW_IDX == 0
RITM_HEADER_ROW_IDX == 8
SLIDE6_NUM_DATA_ROWS == 5

populate_slide_6(shapes, d) ==
    LET st0 == Printing(Run(shapes), <<"--- Populating Slide">>)
        inc == _extract_slide6_table_data(d, "INC", INC_HEADER_ROW_IDX, SLIDE6_NUM_DATA_ROWS)
        ritm == _extract_slide6_table_data(d, "RITM", RITM_HEADER_ROW_IDX, SLIDE6_NUM_DATA_ROWS)
    IN
    IF inc.status # "ok" THEN Raise(st0, inc.status)
    ELSE IF ritm.status # "ok" THEN Raise(st0, ritm.status)
    ELSE
    LET st1 == find_shape_by_name(Printing(st0, <<"-> Formatting main title...">>),
                                  "MainTitle")
        title == ShapeIndex(shapes, "MainTitle")
        st2 == IF title = 0 THEN st1
               ELSE IF inc.value.headers = <<>> THEN Raise(st1, "IndexError")
               ELSE format_main_title(st1, title, inc.value.headers[Len(inc.value.headers)])
    IN
    IF st2.status # "ok" THEN st2
    ELSE
    LET st3 == find_shape_by_name(
                   find_shape_by_name(Printing(st2, <<"-> Populating tables...">>),
                                      "INC Table"),
                   "RITM Table")
        st4 == _populate_table_slide6(st3, ShapeIndex(shapes, "INC Table"), inc.value)
        st5 == _populate_table_slide6(st4, ShapeIndex(shapes, "RITM Table"), ritm.value)
        st6 == RemoveCharts(st5)
        st7 == _add_line_chart_slide6(Printing(st6, <<"-> Creating line charts...">>),
                                      "inc_chart_position", inc.value, 5)
        st8 == _add_line_chart_slide6(st7, "ritm_chart_position", ritm.value, 5)
    IN  Printing(st8, <<"Slide populated.">>)

(***************************************************************************)
(* Main.py, slide 7: _add_bar_chart_slide7, populate_slide_7               *)
(***************************************************************************)
\* for name, values in data_dict.items(): chart_data.add_series(name, values)
SeriesOf(data_dict) ==
    [i \in 1..Len(data_dict) |-> [name |-> data_dict[i].k, values |-> data_dict[i].v]]

\* if data_dict is None: return
AlwaysChartData(data_dict) == FALSE
NoChartData(data_dict) == data_dict = None

\* Past the first line, data_dict.items() raises AttributeError on None.
_add_bar_chart_slide7(st, categories, data_dict, position, title) ==
    IF st.status # "ok" THEN st
    ELSE IF NoChartData(data_dict) THEN st
    ELSE IF data_dict = None THEN Raise(st, "AttributeError")
    ELSE [st EXCEPT !.shapes = Append(@,
            Chart("COLUMN_CLUSTERED", title, Val(categories), SeriesOf(Val(data_dict)),
                  position))]

TOOLS_CREATED == <<"Tools", " ", "Created">>
AUTO_CLOSED_BY_TOOLS == <<"Auto", " ", "closed", " ", "by", " ", "Tools">>
INC_CREATED_BY == <<"INC Created by">>
INC_RESOLVED_BY == <<"INC Resolved by">>
INC_STATS == <<"INC Stats">>
CREATION_NUM_ROWS == 4
CLOSED_NUM_ROWS == 2

populate_slide_7(shapes, d) ==
    LET st0 == Printing(Printing(Run(shapes), <<"--- Populating Slide">>),
                        <<"-> Extracting data for bar charts...">>)
        creation == _extract_data_block_slide7(d, TOOLS_CREATED, CREATION_NUM_ROWS)
        closed == _extract_data_block_slide7(d, AUTO_CLOSED_BY_TOOLS, CLOSED_NUM_ROWS)
        stats == _extract_stats_data_slide7(d)
    IN
    IF stats.status # "ok" THEN Raise(st0, stats.status)
    ELSE
    LET st1 == Printing(st0, <<"-> Creating bar charts with fixed axis scale...">>)
        st2 == _add_bar_chart_slide7(st1, creation.value.categories, creation.value.data,
                                     "pos_created", INC_CREATED_BY)
        st3 == _add_bar_chart_slide7(st2, closed.value.categories, closed.value.data,
                                     "pos_resolved", INC_RESOLVED_BY)
        st4 == _add_bar_chart_slide7(st3, stats.value.categories, stats.value.data,
                                     "pos_stats", INC_STATS)
    IN  Printing(st4, <<"Slide populated.">>)

(***************************************************************************)
(* Main.py, slide 8: _add_chart_slide8, _update_text_boxes_slide8,         *)
(* populate_slide_8                                                        *)
(***************************************************************************)
_add_chart_slide8(st, categories, data_dict, position, title) ==
    IF st.status # "ok" THEN st
    ELSE IF data_dict = None THEN st
    ELSE [st EXCEPT !.shapes = Append(@,
            Chart("LINE_MARKERS", title, Val(categories), SeriesOf(Val(data_dict)),
                  position))]

\* A regular expression as the sequence of its parts: a literal text, white
\* space (one or more, or any number) or a group of digits.
Lit(tok) == [p |-> "lit", tok |-> tok]
Ws1 == [p |-> "ws+", tok |-> ""]
Ws0 == [p |-> "ws*", tok |-> ""]
Digits == [p |-> "d", tok |-> ""]

\* The position after the white space of s that starts at position i.
RECURSIVE SkipWs(_, _)
SkipWs(s, i) == IF i <= Len(s) /\ s[i] = " " THEN SkipWs(s, i + 1) ELSE i

\* The position after the match of pat in s at position i, 0 without a match.
RECURSIVE MatchEnd(_, _, _)
MatchEnd(s, i, pat) ==
    IF pat = <<>> THEN i
    ELSE IF pat[1].p = "ws*" THEN MatchEnd(s, SkipWs(s, i), Tail(pat))
    ELSE IF i > Len(s) THEN 0
    ELSE IF pat[1].p = "ws+"
    THEN IF s[i] = " " THEN MatchEnd(s, SkipWs(s, i), Tail(pat)) ELSE 0
    ELSE IF pat[1].p = "d"
    THEN IF IsDigits(s[i]) THEN MatchEnd(s, i + 1, Tail(pat)) ELSE 0
    ELSE IF s[i] = pat[1].tok THEN MatchEnd(s, i + 1, Tail(pat)) ELSE 0

\* The matched text with its groups of digits replaced by the values in turn.
RECURSIVE ReplaceDigits(_, _)
ReplaceDigits(s, values) ==
    IF s = <<>> THEN <<>>
    ELSE IF IsDigits(s[1]) /\ values # <<>>
    THEN values[1] \o ReplaceDigits(Tail(s), Tail(values))
    ELSE <<s[1]>> \o ReplaceDigits(Tail(s), values)

\* re.sub(pat, repl, s), repl keeping every group of pat but the digits
RECURSIVE ReSub(_, _, _)
ReSub(s, pat, values) ==
    IF s = <<>> THEN <<>>
    ELSE IF MatchEnd(s, 1, pat) > 1
    THEN ReplaceDigits(SubSeq(s, 1, MatchEnd(s, 1, pat) - 1), values)
         \o ReSub(SubSeq(s, MatchEnd(s, 1, pat), Len(s)), pat, values)
    ELSE <<s[1]>> \o ReSub(Tail(s), pat, values)

INC_CONC_PATTERN ==
    <<Lit("Total Incidents raised for the week"), Ws1, Digits, Ws1, Lit("is"), Ws1,
      Digits, Lit(".")>>
\* "-" stands for the dash of the template's sentence.
RITM_CONC_PATTERN ==
    <<Lit("Total RITM raised for the Week"), Ws1, Digits, Ws1, Lit("is"), Ws1, Digits,
      Lit(","), Ws0, Lit("Fulfilled"), Ws0, Lit("-"), Ws0, Digits>>

\* data.get(key, [0])
GetOrBlank(data, key) == IF HasKey(data, key) THEN DictGet(data, key) ELSE <<S(<<>>)>>
GetOrZero(data, key) == IF HasKey(data, key) THEN DictGet(data, key) ELSE <<N(0)>>

\* One "if data:" block of _update_text_boxes_slide8: the last value of each
\* series in keys and the digits of the last category go into paragraph 0
\* of the text box called name.
UpdateConc(st, data, cats, keys, name, pattern) ==
    IF st.status # "ok" THEN st
    ELSE IF data = None \/ data = Some(<<>>) THEN st
    ELSE IF \E q \in 1..Len(keys) : GetOrZero(Val(data), keys[q]) = <<>>
    THEN Raise(st, "IndexError")
    ELSE IF Val(cats) = <<>> THEN Raise(st, "IndexError")
    ELSE IF FirstDigits(Val(cats)[Len(Val(cats))]) = None THEN Raise(st, "AttributeError")
    ELSE
    LET last_week_num == Val(FirstDigits(Val(cats)[Len(Val(cats))]))
        lasts == [q \in 1..Len(keys) |->
                    PyStr(GetOrZero(Val(data), keys[q])[Len(GetOrZero(Val(data), keys[q]))])]
        looked == find_shape_by_name(st, name)
        i == ShapeIndex(st.shapes, name)
    IN  IF i = 0 \/ st.shapes[i].kind # "text" THEN looked
        ELSE Printing(
                [looked EXCEPT
                    !.shapes[i].paras[1] = ReSub(@, pattern, <<(<<last_week_num>>)>> \o lasts),
                    !.shapes[i].fmt = "Calibri 11"],
                <<"-> Updated text box.", name>>)

_update_text_boxes_slide8(st, inc_data, ritm_data, inc_cats, ritm_cats) ==
    UpdateConc(
        UpdateConc(st, inc_data, inc_cats, <<(<<"Total INCs Created">>)>>,
                   "INC Conc", INC_CONC_PATTERN),
        ritm_data, ritm_cats, <<(<<"Total RITMs Created">>), (<<"RITMs Fulfilled">>)>>,
        "RITM Conc", RITM_CONC_PATTERN)

populate_slide_8(shapes, d) ==
    LET st0 == Printing(Printing(Run(shapes), <<"--- Populating Slide">>),
                        <<"-> Extracting data for charts...">>)
        ex == Slide8Extraction(d)
    IN
    IF ex.inc.status # "ok" THEN Raise(st0, ex.inc.status)
    ELSE IF ex.ritm.status # "ok" THEN Raise(st0, ex.ritm.status)
    ELSE
    LET st1 == Printing(st0, <<"-> Creating line charts...">>)
        st2 == _add_chart_slide8(st1, ex.inc.value.categories, ex.inc.value.data,
                                 "pos_inc", <<"INC Resolved">>)
        st3 == _add_chart_slide8(st2, ex.ritm.value.categories, ex.ritm.value.data,
                                 "pos_ritm", <<"RITMs Resolved">>)
        st4 == _update_text_boxes_slide8(Printing(st3, <<"-> Updating text boxes...">>),
                                         ex.inc.value.data, ex.ritm.value.data,
                                         ex.inc.value.categories, ex.ritm.value.categories)
    IN  Printing(st4, <<"Slide populated.">>)

(***************************************************************************)
(* Main.py, slide 9: _extract_data_block_slide9, _populate_table_slide9,   *)
(* _add_line_chart_slide9, _update_conclusion_slide9, populate_slide_9     *)
(***************************************************************************)
TYPE == <<"Type">>
CLOSURE_TYPE == <<"Closure", " ", "Type">>
TYPE_NUM_ROWS == 6
CLOSURE_NUM_ROWS == 4

\* The row of the label is itself the header row; the data columns are the
\* last four of the columns after the first.
_extract_data_block_slide9(d, start_label, num_rows) ==
    LET start_row_idx == _find_data_row(d, start_label) IN
    IF start_row_idx = -1
    THEN Returned([categories |-> None, data |-> None, headers |-> None])
    ELSE
    LET header_row == d.rows[start_row_idx + 1]
        all_data_cols == Tail(Columns(d))
        last_four_data_cols == LastFour(all_data_cols)
        last_four_week_headers ==
            [i \in 1..Len(last_four_data_cols) |-> PyStr(header_row[last_four_data_cols[i]])]
        data_start_row == start_row_idx + 1
        data_end_row == data_start_row + num_rows
        categories == ColumnSlice(d, 1, data_start_row, data_end_row)
        data_dict ==
            DictOf(last_four_week_headers,
                   [i \in 1..Len(last_four_data_cols) |->
                        ColumnSlice(d, last_four_data_cols[i], data_start_row, data_end_row)])
    IN  Returned([categories |-> Some(categories), data |-> Some(data_dict),
                  headers |-> Some(last_four_week_headers)])

\* The cell writes of _populate_table_slide9 after the top left cell.
Slide9Writes(categories, data_dict, headers) ==
    [i \in 1..Len(headers) |-> [k |-> <<0, i>>, v |-> headers[i]]]
    \o Flatten([r \in 1..Len(categories) |->
        <<[k |-> <<r, 0>>, v |-> categories[r].v]>>
        \o [c \in 1..Len(headers) |->
            [k |-> <<r, c>>, v |-> PyStr(DictGet(data_dict, headers[c])[r])]]])

\* _populate_table_slide9(table_shape, ...), table_shape being shapes[i]:
\* the top left cell is written, then the headers are iterated (TypeError
\* when they are None), then the rows (TypeError at a label that is no
\* string).  The slide is left as it was when an exception is raised.
_populate_table_slide9(st, i, categories, data_dict, headers, top_left_cell_text) ==
    IF st.status # "ok" THEN st
    ELSE IF i = 0 \/ st.shapes[i].kind # "table" THEN st
    ELSE IF headers = None \/ categories = None THEN Raise(st, "TypeError")
    ELSE IF \E r \in 1..Len(Val(categories)) : Val(categories)[r].t # "str"
    THEN Raise(st, "TypeError")
    ELSE [st EXCEPT
            !.shapes[i].cells =
                WriteCells(DictPut(@, <<0, 0>>, <<top_left_cell_text>>),
                           Slide9Writes(Val(categories), Val(data_dict), Val(headers))),
            !.shapes[i].fmt = "Aptos 11 centered"]

\* _add_line_chart_slide9: one series per week, the 'total' categories and
\* their values left out.
_add_line_chart_slide9(st, categories, data_dict, position, title) ==
    IF st.status # "ok" THEN st
    ELSE IF data_dict = None THEN st
    ELSE IF \E r \in 1..Len(Val(categories)) : Val(categories)[r].t # "str"
    THEN Raise(st, "AttributeError")
    ELSE
    LET cats == Val(categories)
        kept == SelectSeq([r \in 1..Len(cats) |-> r], LAMBDA r : ~IsTotal(cats[r].v))
        dict == Val(data_dict)
        series == [q \in 1..Len(dict) |->
                    [name |-> dict[q].k,
                     values |-> [j \in 1..Len(kept) |-> dict[q].v[kept[j]]]]]
    IN  [st EXCEPT !.shapes = Append(@,
            Chart("LINE_MARKERS", title, [j \in 1..Len(kept) |-> cats[kept[j]]], series,
                  position))]

_update_conclusion_slide9(st, categories, data_dict, headers) ==
    IF st.status # "ok" THEN st
    ELSE IF data_dict = None \/ data_dict = Some(<<>>) THEN st
    ELSE
    LET cats == Val(categories)
        total_row_index == {r \in 1..Len(cats) : IsTotal(cats[r].v)}
    IN
    IF total_row_index = {} THEN st
    ELSE
    LET last_week_header == Val(headers)[Len(Val(headers))]
        last_week_total == DictGet(Val(data_dict), last_week_header)[First(total_row_index)]
    IN
    IF FirstDigits(last_week_header) = None THEN Raise(st, "AttributeError")
    ELSE
    LET looked == find_shape_by_name(st, "Conclusion")
        i == ShapeIndex(st.shapes, "Conclusion")
    IN  IF i = 0 \/ st.shapes[i].kind # "text" THEN looked
        ELSE Printing(
                [looked EXCEPT !.shapes[i].paras[1] =
                    PyStr(last_week_total)
                    \o <<" ", "successful changes for", " ", "Week", " ",
                         Val(FirstDigits(last_week_header))>>],
                <<"-> Updated text box.", "Conclusion">>)

populate_slide_9(shapes, d) ==
    LET st0 == Printing(Printing(Run(shapes), <<"--- Populating Slide">>),
                        <<"-> Extracting data for tables and charts...">>)
        type == _extract_data_block_slide9(d, TYPE, TYPE_NUM_ROWS).value
        closure == _extract_data_block_slide9(d, CLOSURE_TYPE, CLOSURE_NUM_ROWS).value
        st1 == find_shape_by_name(Printing(st0, <<"-> Formatting main title...">>), "Title")
        title == ShapeIndex(shapes, "Title")
        st2 == IF title # 0 /\ type.headers # None /\ type.headers # Some(<<>>)
               THEN format_main_title(st1, title,
                                      S(Val(type.headers)[Len(Val(type.headers))]))
               ELSE st1
        st3 == find_shape_by_name(
                   find_shape_by_name(Printing(st2, <<"-> Populating tables...">>),
                                      "CR Table"),
                   "CCS Table")
        st4 == _populate_table_slide9(st3, ShapeIndex(shapes, "CR Table"),
                                      type.categories, type.data, type.headers, "Change")
        st5 == _populate_table_slide9(st4, ShapeIndex(shapes, "CCS Table"),
                                      closure.categories, closure.data, closure.headers,
                                      "Closure")
        st6 == _add_line_chart_slide9(Printing(st5, <<"-> Creating line charts...">>),
                   type.categories, type.data, "pos_cr", <<"Changes Requests">>)
        st7 == _add_line_chart_slide9(st6, closure.categories, closure.data, "pos_ccs",
                                      <<"Change Closure Status">>)
        st8 == _update_conclusion_slide9(
                   Printing(st7, <<"-> Updating conclusion text box...">>),
                   closure.categories, closure.data, closure.headers)
    IN  Printing(st8, <<"Slide populated.">>)

(***************************************************************************)
(* Main.py, slide 10: _create_and_populate_table_slide10,                  *)
(* populate_slide_10                                                       *)
(***************************************************************************)
\* The table added for one extracted table: the headers in row 0, then one
\* row per data row, every cell as text.
_create_and_populate_table_slide10(st, position, table_data) ==
    LET headers == table_data.headers
        data_rows == table_data.data
        writes ==
            [c \in 1..Len(headers) |-> [k |-> <<0, c - 1>>, v |-> headers[c]]]
            \o Flatten([r \in 1..Len(data_rows) |->
                [c \in 1..Len(data_rows[r]) |->
                    [k |-> <<r, c - 1>>,
                     v |-> IF c = 1 THEN data_rows[r][c]
                           ELSE <<ToString(data_rows[r][c])>>]]])
    IN  IF Len(headers) = 1 THEN Raise(st, "ZeroDivisionError")
        ELSE [st EXCEPT !.shapes = Append(@,
                [Table("Table") EXCEPT !.cells = WriteCells(<<>>, writes),
                                       !.fmt = position])]

SLIDE10_PLACEHOLDERS == <<"BSI", "BSR", "BSC">>

\* if shape := find_shape_by_name(slide, shape_name): remove it
DeletePlaceholder(st, shape_name) ==
    LET looked == find_shape_by_name(st, shape_name)
        i == ShapeIndex(st.shapes, shape_name)
    IN  IF i = 0 THEN looked
        ELSE Printing([looked EXCEPT !.shapes = SubSeq(@, 1, i - 1) \o SubSeq(@, i + 1, Len(@))],
                      <<"-> Deleted placeholder table", shape_name>>)

RECURSIVE CreateTables(_, _)
CreateTables(st, tables) ==
    IF tables = <<>> \/ st.status # "ok" THEN st
    ELSE CreateTables(
            _create_and_populate_table_slide10(
                Printing(st, <<"-> Creating table for", tables[1].title>>),
                tables[1].title, tables[1]),
            Tail(tables))

\* The run's printed lines start with those of the extraction.
populate_slide_10(shapes, d) ==
    LET ex == _extract_data_for_slide10(d)
        st0 == [Run(shapes) EXCEPT !.printed = <<(<<"--- Populating Slide">>)>> \o ex.printed]
    IN
    IF ex.tables = <<>>
    THEN Printing(st0, <<"Could not extract data for Slide. Skipping.">>)
    ELSE
    LET st1 == DeletePlaceholder(
                   DeletePlaceholder(DeletePlaceholder(st0, SLIDE10_PLACEHOLDERS[1]),
                                     SLIDE10_PLACEHOLDERS[2]),
                   SLIDE10_PLACEHOLDERS[3])
        st2 == CreateTables(st1, ex.tables)
    IN  Printing(st2, <<"Slide populated.">>)

(***************************************************************************)
(* The populate functions on bounded slides and worksheets                 *)
(***************************************************************************)
\* Rows of a generated slide 7 and slide 9 worksheet.
MaxRows7 == 4
MaxRows9 == 3
\* Charts on slide 6 of the template.
MaxOldCharts == 2

\* The shape names each populate function looks up.
ShapeNames(k) ==
    CASE k = 6 -> <<"MainTitle", "INC Table", "RITM Table">>
      [] k = 8 -> <<"INC Conc", "RITM Conc">>
      [] k = 9 -> <<"Title", "CR Table", "CCS Table", "Conclusion">>
      [] k = 10 -> SLIDE10_PLACEHOLDERS
      [] OTHER -> <<>>

\* The first paragraphs of a template title: with '$' for the week number,
\* with "past weeks", with neither.
TitleTexts ==
    {<<"Status", " ", "of", " ", "Week", " ", "$", " ", "to", " ", "$">>,
     <<"Tickets", " ", "of", " ", "the", " ", "Past", " ", " ", "weeks">>,
     <<"Weekly", " ", "status">>}

\* The shape called name as the template holds it.
TemplateShape(name, title_text) ==
    CASE name \in {"MainTitle", "Title"} -> TextBox(name, <<title_text, <<"Week", " ", "$">>>>)
      [] name = "INC Conc" ->
            TextBox(name, <<(<<"Total Incidents raised for the week", " ", " ", "0", " ",
                               "is", " ", "0", ".", " ", "Resolved", " ", "0">>),
                            (<<"Notes">>)>>)
      [] name = "RITM Conc" ->
            TextBox(name, <<(<<"Total RITM raised for the Week", " ", "0", " ", "is", " ",
                               "0", ",", " ", "Fulfilled", "-", " ", "0">>)>>)
      [] name = "Conclusion" -> TextBox(name, <<(<<"0", " ", "changes">>)>>)
      [] OTHER -> Table(name)

OldChart == Chart("LINE_MARKERS", <<"Old">>, <<>>, <<>>, "")

\* A slide of the template: a picture, the named shapes that are present and
\* the charts left on it.
TemplateSlide(k, present, title_text, old_charts) ==
    <<Picture("Logo")>>
    \o [i \in 1..Len(SelectSeq(ShapeNames(k), LAMBDA nm : nm \in present)) |->
            TemplateShape(SelectSeq(ShapeNames(k), LAMBDA nm : nm \in present)[i],
                          title_text)]
    \o [i \in 1..old_charts |-> OldChart]

\* The 'INC & RITM Resolved' worksheet: header rows at rows 0 and 8 whose
\* last nw cells are week labels, a Total row closing each block of five
\* rows, empty rows between the blocks; with blank, one label cell of the
\* first block is empty.
Slide6RowCounts ==
    {0, RITM_HEADER_ROW_IDX + 1, RITM_HEADER_ROW_IDX + 1 + SLIDE6_NUM_DATA_ROWS}
Slide6Sheet(nw, nrows, blank) ==
    [columns |-> [c \in 1..(NumDataCols + 1) |-> c - 1],
     rows |-> [i \in 1..nrows |->
        [c \in 1..(NumDataCols + 1) |->
            LET r == i - 1
                header == r \in {INC_HEADER_ROW_IDX, RITM_HEADER_ROW_IDX}
                total == r \in {INC_HEADER_ROW_IDX + SLIDE6_NUM_DATA_ROWS,
                                RITM_HEADER_ROW_IDX + SLIDE6_NUM_DATA_ROWS}
                between == r > INC_HEADER_ROW_IDX + SLIDE6_NUM_DATA_ROWS
                           /\ r < RITM_HEADER_ROW_IDX
            IN  IF c = 1
                THEN (IF header \/ between \/ (blank /\ r = 2) THEN NaN
                      ELSE IF total THEN S(<<"Total">>)
                      ELSE S(RowLabel(r)))
                ELSE IF header
                THEN HeaderCell(IF c - 1 > NumDataCols - nw THEN "week" ELSE "other", c - 1)
                ELSE IF between THEN NaN
                ELSE N((10 * r + c - 1) % (MaxCellValue + 1))]]]

\* The slide 7 worksheet, by the kind of each row: a header row of week
\* labels or a row of one of the four labels.
RowKinds7 == {"hdr", "tools", "auto", "created", "resolved"}
Slide7Sheet(kinds) ==
    [columns |-> [c \in 1..(NumDataCols + 1) |-> c - 1],
     rows |-> [i \in 1..Len(kinds) |->
        [c \in 1..(NumDataCols + 1) |->
            IF c = 1
            THEN CASE kinds[i] = "tools" -> S(TOOLS_CREATED)
                   [] kinds[i] = "auto" -> S(AUTO_CLOSED_BY_TOOLS)
                   [] kinds[i] = "created" -> S(INCS_CREATED)
                   [] kinds[i] = "resolved" -> S(INCS_RESOLVED)
                   [] OTHER -> NaN
            ELSE IF kinds[i] = "hdr" THEN HeaderCell("week", c - 1)
            ELSE N(10 * (i - 1) + c - 1)]]]

\* The 'CR' worksheet, by the kind of each row: the 'Type' and 'Closure
\* Type' rows hold the week labels, the others numbers; a blank row has an
\* empty first cell.
RowKinds9 == {"type", "closure", "total", "normal", "blank"}
Slide9Sheet(kinds) ==
    [columns |-> [c \in 1..(NumDataCols + 1) |-> c - 1],
     rows |-> [i \in 1..Len(kinds) |->
        [c \in 1..(NumDataCols + 1) |->
            IF c = 1
            THEN CASE kinds[i] = "type" -> S(TYPE)
                   [] kinds[i] = "closure" -> S(CLOSURE_TYPE)
                   [] kinds[i] = "total" -> S(<<"Total">>)
                   [] kinds[i] = "normal" -> S(<<"Normal">>)
                   [] OTHER -> NaN
            ELSE IF kinds[i] \in {"type", "closure"} THEN HeaderCell("week", c - 1)
            ELSE N(10 * (i - 1) + c - 1)]]]

\* The row kinds of the 'Business Services' worksheets the slides are
\* populated from.
PopulateRowKinds10 == {"tINC", "tRITM", "hdr", "data", "total"}

InitSlides ==
    /\ \E k \in 6..10 :
        /\ pc = At("populate", k)
        /\ \E present \in SUBSET {ShapeNames(k)[i] : i \in 1..Len(ShapeNames(k))} :
           \E title_text \in IF present \cap {"MainTitle", "Title"} = {}
                             THEN {<<>>} ELSE TitleTexts :
           \E old_charts \in IF k = 6 THEN 0..MaxOldCharts ELSE {0} :
                slide = TemplateSlide(k, present, title_text, old_charts)
        /\ CASE k = 6 ->
                \E nw \in 0..NumDataCols, nrows \in Slide6RowCounts, blank \in BOOLEAN :
                    df = Slide6Sheet(nw, nrows, blank)
             [] k = 7 ->
                \E n \in 0..MaxRows7 : \E kinds \in [1..n -> RowKinds7] :
                    df = Slide7Sheet(kinds)
             [] k = 8 ->
                \E states \in [1..Len(ColumnNames8) -> ColumnStates8], nrows \in 0..MaxRows8 :
                    df = Slide8Sheet(states, nrows)
             [] k = 9 ->
                \E n \in 0..MaxRows9 : \E kinds \in [1..n -> RowKinds9] :
                    df = Slide9Sheet(kinds)
             [] OTHER ->
                \E n \in 0..MaxRows10 : \E kinds \in [1..n -> PopulateRowKinds10] :
                    df = Slide10Sheet(kinds)
    /\ ret = <<>>
    /\ workbook = {}
    /\ dfs = {}
    /\ prs = 0
    /\ calls = <<>>
    /\ files = {}
    /\ log = <<>>
    /\ events = <<>>

\* One call of a populate function: the slide is left as the run left it.
Populated(fn, run) ==
    /\ ret = <<>>
    /\ ret' = <<Call(fn, <<slide, df>>, run)>>
    /\ slide' = run.shapes
    /\ UNCHANGED mainVars

CallPopulateSlide6 ==
    /\ pc = At("populate", 6)
    /\ Populated("populate_slide_6", populate_slide_6(slide, df))
    /\ UNCHANGED df

CallPopulateSlide7 ==
    /\ pc = At("populate", 7)
    /\ Populated("populate_slide_7", populate_slide_7(slide, df))
    /\ UNCHANGED df

CallPopulateSlide8 ==
    /\ pc = At("populate", 8)
    /\ Populated("populate_slide_8", populate_slide_8(slide, df))
    /\ df' = StripColumns(df)

CallPopulateSlide9 ==
    /\ pc = At("populate", 9)
    /\ Populated("populate_slide_9", populate_slide_9(slide, df))
    /\ UNCHANGED df

CallPopulateSlide10 ==
    /\ pc = At("populate", 10)
    /\ Populated("populate_slide_10", populate_slide_10(slide, df))
    /\ df' = _extract_data_for_slide10(df).df

NextSlides ==
    \/ CallPopulateSlide6
    \/ CallPopulateSlide7
    \/ CallPopulateSlide8
    \/ CallPopulateSlide9
    \/ CallPopulateSlide10

SpecSlides == InitSlides /\ [][NextSlides]_vars

\* x is an element of the sequence s.
InSeq(x, s) == \E i \in 1..Len(s) : s[i] = x
\* The shapes without those called name.
Without(shapes, name) == SelectSeq(shapes, LAMBDA sh : sh.name # name)
\* The populate function of slide k.
Populate(k, shapes, d) ==
    CASE k = 6 -> populate_slide_6(shapes, d)
      [] k = 7 -> populate_slide_7(shapes, d)
      [] k = 8 -> populate_slide_8(shapes, d)
      [] k = 9 -> populate_slide_9(shapes, d)
      [] OTHER -> populate_slide_10(shapes, d)
\* A first cell of worksheet d contains label, case ignored.
LabelFound(d, label) ==
    \E r \in 1..Len(d.rows) :
        \E i \in 0..(Len(PyStr(d.rows[r][1])) - Len(label)) :
            \A j \in 1..Len(label) :
                LowerToken(PyStr(d.rows[r][1])[i + j]) = LowerToken(label[j])
\* The number of charts of shapes with the title.
ChartsTitled(shapes, title) ==
    Cardinality({i \in 1..Len(shapes) :
                    shapes[i].kind = "chart" /\ shapes[i].chart[1].title = title})

\* C4: in populate_slide_6, _8, _9 and _10, a shape name that is looked up
\* and that no shape of the slide has gets the "not found" warning; the
\* function then returns normally whenever it does so with the shape
\* present, and leaves every other shape of the slide as it leaves it with
\* the shape present.
C4_AbsentShapeSkipsOnlyItsWrites ==
    (ret # <<>> /\ pc.n \in {6, 8, 9, 10}) =>
        \A q \in 1..Len(ShapeNames(pc.n)), title_text \in TitleTexts :
            LET x == ShapeNames(pc.n)[q]
                res == ret[1].res
                with == Populate(pc.n, <<TemplateShape(x, title_text)>> \o ret[1].args[1],
                                 ret[1].args[2])
            IN  ShapeIndex(ret[1].args[1], x) = 0 =>
                    /\ InSeq(x, res.lookups) =>
                            InSeq(<<"Warning: Shape not found", x>>, res.printed)
                    /\ with.status = "ok" =>
                        /\ res.status = "ok"
                        /\ res.shapes = Without(with.shapes, x)
                        /\ slide = res.shapes

\* populate_slide_6 has returned normally on a slide without 'INC Table':
\* the warning is printed, 'RITM Table' is filled and both charts are added.
C4_Witness ==
    /\ ret # <<>>
    /\ pc.n = 6
    /\ ret[1].res.status = "ok"
    /\ ShapeIndex(ret[1].args[1], "INC Table") = 0
    /\ InSeq(<<"Warning: Shape not found", "INC Table">>, ret[1].res.printed)
    /\ ShapeIndex(slide, "RITM Table") # 0
    /\ Len(slide[ShapeIndex(slide, "RITM Table")].cells) > 4
    /\ ChartsTitled(slide, <<"INC", " ", "Resolved">>) = 1
    /\ ChartsTitled(slide, <<"RITM", " ", "Resolved">>) = 1

C6_MissingBlockLeavesItsTable ==
    (/\ ret # <<>>
     /\ pc.n = 9
     /\ ShapeIndex(ret[1].args[1], "CR Table") # 0
     /\ ShapeIndex(ret[1].args[1], "CCS Table") # 0
     /\ LabelFound(ret[1].args[2], TYPE)
     /\ ~LabelFound(ret[1].args[2], CLOSURE_TYPE)
     /\ \A r \in 1..Len(ret[1].args[2].rows) : ret[1].args[2].rows[r][1].t = "str") =>
        /\ ret[1].res.status = "ok"
        /\ slide[ShapeIndex(slide, "CR Table")].cells # <<>>
        /\ slide[ShapeIndex(slide, "CCS Table")].cells = <<>>
        /\ ChartsTitled(slide, <<"Changes Requests">>) = 1
        /\ ChartsTitled(slide, <<"Change Closure Status">>) = 0

(***************************************************************************)
(* Main.py, apply_chart_styles                                             *)
(*                                                                         *)
(* The presentation PowerPoint opens is the sequence of its slides         *)
(* (Slides(i + 1) is slide index i), a slide the sequence of its shapes, a *)
(* shape whether it has a chart and the chart style it has.                *)
(***************************************************************************)
CHART_STYLE_FOR_LINE_CHARTS == 228

\* styles_to_apply of the __main__ block, a dict in insertion order
MainStyles ==
    <<[k |-> SLIDE_6_INDEX, v |-> CHART_STYLE_FOR_LINE_CHARTS],
      [k |-> SLIDE_8_INDEX, v |-> CHART_STYLE_FOR_LINE_CHARTS],
      [k |-> SLIDE_9_INDEX, v |-> CHART_STYLE_FOR_LINE_CHARTS]>>

ComShape(has_chart, style) == [HasChart |-> has_chart, ChartStyle |-> style]

\* presentation.Slides.Count < (slide_index + 1)
SlideBeyondOrLast(count, slide_index) == count <= slide_index + 1
SlideBeyond(count, slide_index) == count < slide_index + 1

\* for shape in target_slide.Shapes: if shape.HasChart: set its ChartStyle
StyleSlide(shapes, style_id) ==
    [i \in 1..Len(shapes) |->
        IF shapes[i].HasChart THEN [shapes[i] EXCEPT !.ChartStyle = style_id]
        ELSE shapes[i]]

\* The loop over styles_to_apply.items() from the k-th item on: the slides
\* as left and the lines printed.
RECURSIVE StyleLoop(_, _, _)
StyleLoop(slides, styles, k) ==
    IF k > Len(styles) THEN [slides |-> slides, printed |-> <<>>]
    ELSE IF SlideBeyond(Len(slides), styles[k].k)
    THEN LET rest == StyleLoop(slides, styles, k + 1)
         IN  [rest EXCEPT !.printed =
                <<(<<"Skipping style for slide", styles[k].k + 1>>)>> \o @]
    ELSE LET rest == StyleLoop(
                        [slides EXCEPT ![styles[k].k + 1] = StyleSlide(@, styles[k].v)],
                        styles, k + 1)
         IN  [rest EXCEPT !.printed =
                <<(<<"Targeting Slide for Style ID", styles[k].k + 1, styles[k].v>>)>> \o @]

\* apply_chart_styles once the presentation is open: what SaveAs writes
apply_chart_styles(slides, styles_to_apply) == StyleLoop(slides, styles_to_apply, 1)

(***************************************************************************)
(* apply_chart_styles on bounded presentations                             *)
(***************************************************************************)
\* Slides of a generated presentation.
MaxSlides == 7
\* The chart style a chart has before the styling pass.
DefaultChartStyle == 2

SlideKinds == {"none", "chart", "mixed"}
ComSlide(kind) ==
    CASE kind = "chart" -> <<ComShape(TRUE, DefaultChartStyle)>>
      [] kind = "mixed" -> <<ComShape(FALSE, 0), ComShape(TRUE, DefaultChartStyle),
                             ComShape(TRUE, CHART_STYLE_FOR_LINE_CHARTS)>>
      [] OTHER -> <<ComShape(FALSE, 0)>>

\* The slide indexes of the generated styles_to_apply: the first slide, the
\* last slide of the main workflow, a slide beyond every presentation.
StyleKeys == <<0, SLIDE_10_INDEX, MaxSlides + 1>>
\* styles_to_apply: the one of the __main__ block, or up to two of StyleKeys
\* in any order, each with a style ID of its own.
StyleDicts ==
    {MainStyles, <<>>}
    \cup {<<[k |-> StyleKeys[a], v |-> 200 + a]>> : a \in 1..3}
    \cup {<<[k |-> StyleKeys[p[1]], v |-> 200 + p[1]],
             [k |-> StyleKeys[p[2]], v |-> 200 + p[2]]>> :
            p \in {q \in (1..3) \X (1..3) : q[1] # q[2]}}

InitStyles ==
    /\ \E n \in 0..MaxSlides : \E kinds \in [1..n -> SlideKinds] :
            prs = [i \in 1..n |-> ComSlide(kinds[i])]
    /\ \E styles \in StyleDicts : pc = [at |-> "apply_chart_styles", n |-> styles]
    /\ ret = <<>>
    /\ df = <<>>
    /\ slide = <<>>
    /\ workbook = {}
    /\ dfs = {}
    /\ calls = <<>>
    /\ files = {}
    /\ log = <<>>
    /\ events = <<>>

\* apply_chart_styles(input_path, output_path, styles_to_apply): Dispatch or
\* Presentations.Open may raise, and then nothing is restyled or saved.
CallApplyChartStyles ==
    /\ pc.at = "apply_chart_styles"
    /\ ret = <<>>
    /\ \E ok \in BOOLEAN :
        IF ok
        THEN LET r == apply_chart_styles(prs, pc.n)
             IN  /\ prs' = r.slides
                 /\ ret' = <<Call("apply_chart_styles", <<prs, pc.n>>,
                                  [status |-> "ok", value |-> r.slides,
                                   printed |-> r.printed])>>
        ELSE /\ prs' = prs
             /\ ret' = <<Call("apply_chart_styles", <<prs, pc.n>>,
                              [status |-> "com_error", value |-> prs, printed |-> <<>>])>>
    /\ UNCHANGED <<pc, workbook, dfs, calls, files, log, events, df, slide>>

NextStyles == CallApplyChartStyles

SpecStyles == InitStyles /\ [][NextStyles]_vars

\* The style ID styles_to_apply lists for slide index i, 0 when not listed.
ListedStyle(styles, i) ==
    IF \E q \in 1..Len(styles) : styles[q].k = i
    THEN styles[CHOOSE q \in 1..Len(styles) : styles[q].k = i].v
    ELSE 0

\* C11: after apply_chart_styles has run, on every slide that styles_to_apply
\* lists and the presentation has, every chart shape has the listed style ID
\* and every other shape is as before; every slide that is not listed is as
\* before; a listed slide index beyond the slide count gets its "skipping"
\* line and keeps none of the other listed slides from being styled; with
\* the styles_to_apply of the main workflow, slides 7 and 10 are as before.
C11_StylesOnlyListedSlides ==
    (ret # <<>> /\ ret[1].fn = "apply_chart_styles" /\ ret[1].res.status = "ok") =>
        LET before == ret[1].args[1]
            styles == ret[1].args[2]
        IN  /\ Len(prs) = Len(before)
            /\ \A i \in 0..(Len(before) - 1) :
                /\ Len(prs[i + 1]) = Len(before[i + 1])
                /\ \A j \in 1..Len(before[i + 1]) :
                    IF ListedStyle(styles, i) # 0 /\ before[i + 1][j].HasChart
                    THEN prs[i + 1][j] = [HasChart |-> TRUE,
                                          ChartStyle |-> ListedStyle(styles, i)]
                    ELSE prs[i + 1][j] = before[i + 1][j]
            /\ \A q \in 1..Len(styles) :
                styles[q].k >= Len(before) =>
                    \E l \in 1..Len(ret[1].res.printed) :
                        ret[1].res.printed[l] = <<"Skipping style for slide", styles[q].k + 1>>
            /\ styles = MainStyles =>
                \A i \in {SLIDE_7_INDEX, SLIDE_10_INDEX} :
                    i < Len(before) => prs[i + 1] = before[i + 1]

\* apply_chart_styles has run with a slide index beyond the slide count
\* listed before the last slide, whose chart it has restyled.
C11_Witness ==
    /\ ret # <<>>
    /\ ret[1].fn = "apply_chart_styles"
    /\ ret[1].res.status = "ok"
    /\ Len(prs) = SLIDE_10_INDEX + 1
    /\ Len(ret[1].args[2]) = 2
    /\ ret[1].args[2][1].k >= Len(prs)
    /\ ret[1].args[2][2].k = SLIDE_10_INDEX
    /\ ret[1].args[1][SLIDE_10_INDEX + 1] = <<ComShape(TRUE, DefaultChartStyle)>>
    /\ prs[SLIDE_10_INDEX + 1] = <<ComShape(TRUE, ret[1].args[2][2].v)>>

(***************************************************************************)
(* Further claims about the main workflow, checked under SpecMain          *)
(***************************************************************************)
\* The operations on the two output files performed so far, in order.
OutputEvents ==
    SelectSeq(events, LAMBDA e : e[1] \in {"save_temp", "open_temp", "save_final",
                                           "remove_temp"})

\* C12 as claimed: every run that has saved the temporary presentation and
\* has ended has performed, in this order, the save of the temporary file,
\* the styling pass's open of it, the save of the final presentation and the
\* removal of the temporary file; it ends with the final presentation
\* written and the temporary file removed, or, when the removal failed, with
\* the warning printed and nothing else amiss.
C12_SavedRunEndsWithFinal ==
    (Saved /\ pc.at \in Terminal) =>
        /\ pc.at = "done"
        /\ "final" \in files
        /\ \/ /\ OutputEvents = <<(<<"save_temp">>), (<<"open_temp">>), (<<"save_final">>),
                                  (<<"remove_temp">>)>>
              /\ "temp" \notin files
           \/ /\ OutputEvents = <<(<<"save_temp">>), (<<"open_temp">>), (<<"save_final">>)>>
              /\ log[Len(log)] = "Warning: Could not delete temporary file"

\* The read_excel calls made so far that raised.
FailedReads ==
    {i \in 1..Len(events) : events[i][1] = "read_excel" /\ events[i][2] \notin workbook}

\* C13: no worksheet is read twice; once a read_excel call has raised, it is
\* the last operation of the run, the script has stopped by exit() with the
\* one FATAL line as its whole output, and no Presentation was created, no
\* populate function called and no output file saved, opened or removed.
C13_FailedReadStopsTheRun ==
    /\ \A i, j \in 1..Len(events) :
        (events[i][1] = "read_excel" /\ events[i] = events[j]) => i = j
    /\ FailedReads # {} =>
        /\ FailedReads = {Len(events)}
        /\ pc = At("exited", 0)
        /\ log = <<"FATAL ERROR reading Excel file">>
        /\ prs = 0
        /\ calls = <<>>
        /\ files = {}
        /\ OutputEvents = <<>>

\* The third read has raised after two worksheets were read.
C13_Witness ==
    /\ FailedReads = {3}
    /\ Cardinality(dfs) = 2
    /\ pc.at = "exited"

(***************************************************************************)
(* DataFromSheetForSlide7.py and DataFromSheetForSlide9.py: find_data_row  *)
(***************************************************************************)
\* for index, row in df.iterrows(): from the row at position i (1-based) on,
\* the index of the first row whose first cell, as a lower-case string,
\* contains the lower-case label; -1 when the loop ends.
RECURSIVE IterrowsFind(_, _, _)
IterrowsFind(d, label_text, i) ==
    IF i > Len(d.rows) THEN -1
    ELSE IF Contains(Lower(PyStr(d.rows[i][1])), Lower(label_text)) THEN i - 1
    ELSE IterrowsFind(d, label_text, i + 1)

\* find_data_row of DataFromSheetForSlide7.py
find_data_row_slide7(d, label_text) == IterrowsFind(d, label_text, 1)
\* find_data_row of DataFromSheetForSlide9.py
find_data_row_slide9(d, label_text) == IterrowsFind(d, label_text, 1)

(***************************************************************************)
(* The row-label scans on bounded worksheets                               *)
(***************************************************************************)
\* Rows of a generated worksheet.
MaxLabelRows == 4

\* The first cells of a generated worksheet: labels in several cases, one
\* label inside another, an empty cell, a number.
LabelCells ==
    {S(<<"Type">>), S(<<"TYPE">>), S(<<"Closure", " ", "Type">>), S(<<"Total">>),
     NaN, N(7)}
\* The labels looked for.
LabelTexts ==
    {<<"Type">>, <<"type">>, <<"closure", " ", "TYPE">>, <<"Total">>, <<"nan">>, <<"7">>}

LabelSheet(cells) ==
    [columns |-> <<0, 1>>,
     rows |-> [i \in 1..Len(cells) |-> <<cells[i], N(i)>>]]

InitLabels ==
    /\ \E n \in 0..MaxLabelRows : \E cells \in [1..n -> LabelCells] :
            df = LabelSheet(cells)
    /\ pc = At("find_data_row", 0)
    /\ ret = <<>>
    /\ slide = <<>>
    /\ workbook = {}
    /\ dfs = {}
    /\ prs = 0
    /\ calls = <<>>
    /\ files = {}
    /\ log = <<>>
    /\ events = <<>>

\* One call of each copy of the scan with the same worksheet and label.
CallFindDataRow ==
    /\ pc = At("find_data_row", 0)
    /\ ret = <<>>
    /\ \E label_text \in LabelTexts :
        ret' = <<Call("find_data_row", <<label_text>>,
                      [main |-> _find_data_row(df, label_text),
                       slide7 |-> find_data_row_slide7(df, label_text),
                       slide9 |-> find_data_row_slide9(df, label_text)])>>
    /\ UNCHANGED <<df, slide>>
    /\ UNCHANGED mainVars

NextLabels == CallFindDataRow

SpecLabels == InitLabels /\ [][NextLabels]_vars

\* The text of the first cell of row r (0-based) contains label, case ignored.
RowMatches(r, label) ==
    LET text == PyStr(df.rows[r + 1][1])
    IN  \E i \in 0..(Len(text) - Len(label)) :
            \A j \in 1..Len(label) : LowerToken(text[i + j]) = LowerToken(label[j])

\* C14: the three copies of the scan return the same index; it is -1 when
\* no first cell contains the label (case ignored), and otherwise the index
\* of a row whose first cell does, with no such row before it.
C14_FirstMatchingRow ==
    (ret # <<>> /\ ret[1].fn = "find_data_row") =>
        LET res == ret[1].res
            label == ret[1].args[1]
            matching == {r \in 0..(Len(df.rows) - 1) : RowMatches(r, label)}
        IN  /\ res.slide7 = res.main
            /\ res.slide9 = res.main
            /\ (res.main = -1) <=> (matching = {})
            /\ res.main # -1 =>
                /\ res.main \in matching
                /\ \A r \in matching : res.main <= r

\* 'type' has been looked for in a worksheet whose rows 1 and 2 hold it in
\* other cases ('Closure Type', 'TYPE') and whose row 0 does not.
C14_Witness ==
    /\ ret # <<>>
    /\ ret[1].fn = "find_data_row"
    /\ ret[1].args[1] = <<"type">>
    /\ Len(df.rows) = 3
    /\ df.rows[1][1] = NaN
    /\ df.rows[2][1] = S(<<"Closure", " ", "Type">>)
    /\ df.rows[3][1] = S(<<"TYPE">>)
    /\ ret[1].res.main = 1

(***************************************************************************)
(* Further claims about the slide 7 block extraction, under SpecWeeks      *)
(***************************************************************************)
\* C15 as claimed: when _extract_data_block_slide7 finds its start label,
\* in whatever row, the label row has a row directly above it and every
\* week header returned is the text of a week cell of that row.
C15_HeadersFromRowAbove ==
    \A k \in 1..Len(ret) :
        LET c == ret[k]
            v == c.res.value
        IN  (c.fn = "_extract_data_block_slide7" /\ v.data # None) =>
                LET start == CHOOSE r \in 0..(Len(df.rows) - 1) :
                                df.rows[r + 1][1] = S(RowLabel(c.args[1]))
                IN  \A j \in 1..Len(Val(v.data)) :
                        /\ start >= 1
                        /\ \E col \in 1..Len(df.columns) :
                            /\ IsWeek(df.rows[start][col])
                            /\ PyStr(df.rows[start][col]) = Val(v.data)[j].k

(***************************************************************************)
(* Further claims about the slide 8 and slide 10 extractions, under        *)
(* SpecFrames                                                              *)
(***************************************************************************)
\* The position of the first column of df called label, 0 when none is.
ColumnOf(label) ==
    IF \E c \in 1..Len(df.columns) : df.columns[c] = label
    THEN CHOOSE c \in 1..Len(df.columns) :
            df.columns[c] = label /\ \A b \in 1..(c - 1) : df.columns[b] # label
    ELSE 0
\* The cells of column c of df in its last four rows (in all its rows when
\* it has fewer), in sheet order.
LastRowsOf(c) ==
    LET skip == IF Len(df.rows) > 4 THEN Len(df.rows) - 4 ELSE 0
    IN  [i \in 1..(Len(df.rows) - skip) |-> df.rows[skip + i][c]]

\* C16: when the slide 8 extraction returns, for the INC labels and for the
\* RITM labels alike: it has returned (None, None) exactly when no requested
\* label is a column; otherwise the categories are the 'Week #' cells of the
\* last four rows (of all rows when there are fewer) as strings, in sheet
\* order, and the data holds, in the order requested, exactly the requested
\* labels that are columns, each with that column's cells of the same rows.
C16_LastFourRowsOfPresentColumns ==
    \A k \in 1..Len(ret) :
        (ret[k].fn = "populate_slide_8" /\ ret[k].res.status = "ok") =>
            \A which \in 1..2 :
                LET labels == IF which = 1 THEN inc_series_labels ELSE ritm_series_labels
                    v == ret[k].res.value[which]
                    present == SelectSeq(labels, LAMBDA l : ColumnOf(l) # 0)
                IN  /\ (v.data = None) <=> (present = <<>>)
                    /\ (v.categories = None) <=> (present = <<>>)
                    /\ present # <<>> =>
                        /\ ColumnOf(WEEK_COLUMN_LABEL) # 0
                        /\ Len(Val(v.categories)) = Len(LastRowsOf(ColumnOf(WEEK_COLUMN_LABEL)))
                        /\ \A i \in 1..Len(Val(v.categories)) :
                            Val(v.categories)[i]
                                = PyStr(LastRowsOf(ColumnOf(WEEK_COLUMN_LABEL))[i])
                        /\ Len(Val(v.data)) = Len(present)
                        /\ \A j \in 1..Len(present) :
                            /\ Val(v.data)[j].k = present[j]
                            /\ Val(v.data)[j].v = LastRowsOf(ColumnOf(present[j]))

\* The extraction has returned from a worksheet of five rows that has 'Week
\* #' and one of the INC labels and none of the RITM labels: four
\* categories, one INC series of four values, (None, None) for RITM.
C16_Witness ==
    /\ ret # <<>>
    /\ ret[1].fn = "populate_slide_8"
    /\ ret[1].res.status = "ok"
    /\ Len(df.rows) = 5
    /\ ret[1].res.value[2].data = None
    /\ ret[1].res.value[1].data # None
    /\ Len(Val(ret[1].res.value[1].data)) = 1
    /\ Len(Val(ret[1].res.value[1].data)[1].v) = 4
    /\ Val(ret[1].res.value[1].categories) = <<(<<"22">>), (<<"23">>), (<<"24">>), (<<"25">>)>>

(***************************************************************************)
(* DataFromSheetForSlide8.py: extract_pending_data_from_rows               *)
(* DataFromSheetForSlide9.py: extract_change_data_block                    *)
(***************************************************************************)
\* if len(df) < 4: df.tail(len(df)) else: df.tail(4)
PreviewHeadRows(d) == FirstFour(d.rows)
PreviewTailRows(d) == IF Len(d.rows) < 4 THEN d.rows ELSE LastFour(d.rows)

\* last_four_rows_df[label]: one column when one column has that name, no
\* column (KeyError) or several (a DataFrame, which has no tolist) otherwise.
PreviewTailColumn(d, label) ==
    LET last_four_rows == PreviewTailRows(d) IN
    IF ColumnsNamed(d, label) = {} THEN Raised("KeyError")
    ELSE IF Cardinality(ColumnsNamed(d, label)) > 1 THEN Raised("AttributeError")
    ELSE Returned([i \in 1..Len(last_four_rows) |->
                    last_four_rows[i][First(ColumnsNamed(d, label))]])

extract_pending_data_from_rows(d, series_labels, week_column_label) ==
    LET valid_series_labels ==
            SelectSeq(series_labels, LAMBDA label : ColumnsNamed(d, label) # {})
        week == PreviewTailColumn(d, week_column_label)
        series == [i \in 1..Len(valid_series_labels) |->
                        PreviewTailColumn(d, valid_series_labels[i])]
    IN  IF valid_series_labels = <<>>
        THEN Returned([categories |-> None, data |-> None])
        ELSE IF week.status # "ok" THEN week
        ELSE IF \E i \in 1..Len(series) : series[i].status # "ok"
        THEN Raised("AttributeError")
        ELSE Returned(
            [categories |-> Some([i \in 1..Len(week.value) |-> PyStr(week.value[i])]),
             data |-> Some(DictOf(valid_series_labels,
                                  [i \in 1..Len(series) |-> series[i].value]))])

\* if len(all_data_cols) < 4: all of them, else: all_data_cols[-4:]
PreviewDataCols(all_data_cols) ==
    IF Len(all_data_cols) < 4 THEN all_data_cols ELSE LastFour(all_data_cols)

extract_change_data_block(d, start_label, num_rows) ==
    LET start_row_idx == find_data_row_slide9(d, start_label) IN
    IF start_row_idx = -1 THEN Returned([categories |-> None, data |-> None])
    ELSE
    LET header_row == d.rows[start_row_idx + 1]
        all_data_cols == Tail(Columns(d))
        last_four_data_cols == PreviewDataCols(all_data_cols)
        last_four_week_headers ==
            [i \in 1..Len(last_four_data_cols) |-> PyStr(header_row[last_four_data_cols[i]])]
        data_start_row == start_row_idx + 1
        data_end_row == data_start_row + num_rows
        categories == ColumnSlice(d, 1, data_start_row, data_end_row)
        data_dict ==
            DictOf(last_four_week_headers,
                   [i \in 1..Len(last_four_data_cols) |->
                        ColumnSlice(d, last_four_data_cols[i], data_start_row, data_end_row)])
    IN  Returned([categories |-> Some(categories), data |-> Some(data_dict)])

(***************************************************************************)
(* The slide 8 and slide 9 extractions of Main.py and of the preview       *)
(* scripts, side by side on bounded worksheets                             *)
(***************************************************************************)
\* The 'CR' worksheet with ndata columns after the first: as Slide9Sheet,
\* the header cells of a 'Type' or 'Closure Type' row being of kind header
\* (a week label per column, or one label in every column).
ChangeSheet(kinds, ndata, header) ==
    [columns |-> [c \in 1..(ndata + 1) |-> c - 1],
     rows |-> [i \in 1..Len(kinds) |->
        [c \in 1..(ndata + 1) |->
            IF c = 1
            THEN CASE kinds[i] = "type" -> S(TYPE)
                   [] kinds[i] = "closure" -> S(CLOSURE_TYPE)
                   [] kinds[i] = "total" -> S(<<"Total">>)
                   [] kinds[i] = "normal" -> S(<<"Normal">>)
                   [] OTHER -> NaN
            ELSE IF kinds[i] \in {"type", "closure"} THEN HeaderCell(header, c - 1)
            ELSE N(10 * (i - 1) + c - 1)]]]

InitPreview ==
    /\ \/ /\ pc = At("slide9", 0)
          /\ \E n \in 0..MaxRows9 : \E kinds \in [1..n -> RowKinds9] :
             \E ndata \in 0..NumDataCols, header \in {"week", "dup"} :
                df = ChangeSheet(kinds, ndata, header)
       \/ /\ pc = At("slide8", 0)
          /\ \E states \in [1..Len(ColumnNames8) -> ColumnStates8], nrows \in 0..MaxRows8 :
                df = StripColumns(Slide8Sheet(states, nrows))
    /\ slide = <<>>
    /\ ret = <<>>
    /\ workbook = {}
    /\ dfs = {}
    /\ prs = 0
    /\ calls = <<>>
    /\ files = {}
    /\ log = <<>>
    /\ events = <<>>

\* The slide 9 extraction of Main.py and that of the script, with the same
\* worksheet, label and number of rows.
CallChangeDataBlock ==
    /\ pc = At("slide9", 0)
    /\ ret = <<>>
    /\ \E start_label \in {TYPE, CLOSURE_TYPE}, num_rows \in 1..MaxNumRows :
        ret' = <<Call("_extract_data_block_slide9", <<start_label, num_rows>>,
                      [main |-> _extract_data_block_slide9(df, start_label, num_rows),
                       script |-> extract_change_data_block(df, start_label, num_rows)])>>
    /\ UNCHANGED <<df, slide>>
    /\ UNCHANGED mainVars

\* The slide 8 extraction of Main.py and that of the script, with the same
\* worksheet (its column names stripped, as both callers do) and labels.
CallPendingData ==
    /\ pc = At("slide8", 0)
    /\ ret = <<>>
    /\ \E series_labels \in {inc_series_labels, ritm_series_labels} :
        ret' = <<Call("_extract_pending_data_slide8", <<series_labels>>,
                      [main |-> _extract_pending_data_slide8(df, series_labels,
                                                             WEEK_COLUMN_LABEL),
                       script |-> extract_pending_data_from_rows(df, series_labels,
                                                                 WEEK_COLUMN_LABEL)])>>
    /\ UNCHANGED <<df, slide>>
    /\ UNCHANGED mainVars

NextPreview ==
    \/ CallChangeDataBlock
    \/ CallPendingData

SpecPreview == InitPreview /\ [][NextPreview]_vars

\* The columns of df the slide 9 extraction is to read: the last four of
\* those after the first, all of those when there are fewer.
LastFourDataColumns ==
    LET m == IF Len(df.columns) - 1 < 4 THEN Len(df.columns) - 1 ELSE 4
    IN  [j \in 1..m |-> Len(df.columns) - m + j]

\* C17 as claimed: when _extract_data_block_slide9 finds its label, it
\* returns one series and one header for each of the last four columns
\* after the first (for each column after the first when there are fewer),
\* in sheet order: the header is the text of that column's cell in the
\* label row, the series the cells of that column in the num_rows rows below
\* the label row; the categories are the first cells of those rows, and the
\* first column is no series.
C17_LastFourDataColumnsBelowLabel ==
    (ret # <<>> /\ ret[1].fn = "_extract_data_block_slide9"
        /\ ret[1].res.main.value.data # None) =>
        LET v == ret[1].res.main.value
            label == ret[1].args[1]
            num_rows == ret[1].args[2]
            start == CHOOSE r \in 0..(Len(df.rows) - 1) :
                        RowMatches(r, label) /\ \A q \in 0..(r - 1) : ~RowMatches(q, label)
            cols == LastFourDataColumns
        IN  /\ Val(v.categories) = CellsOf(1, start + 1, start + num_rows)
            /\ Len(Val(v.headers)) = Len(cols)
            /\ Len(Val(v.data)) = Len(cols)
            /\ \A j \in 1..Len(cols) :
                /\ cols[j] # 1
                /\ Val(v.headers)[j] = PyStr(df.rows[start + 1][cols[j]])
                /\ Val(v.data)[j].k = PyStr(df.rows[start + 1][cols[j]])
                /\ Val(v.data)[j].v = CellsOf(cols[j], start + 1, start + num_rows)

\* C18: called with the same worksheet and arguments, the extraction of the
\* preview script and the extraction of Main.py both return or raise the same
\* exception, and return the same categories and the same data mapping:
\* extract_pending_data_from_rows and _extract_pending_data_slide8,
\* extract_change_data_block and _extract_data_block_slide9.
C18_PreviewSameAsMain ==
    (ret # <<>> /\ ret[1].fn \in {"_extract_data_block_slide9",
                                  "_extract_pending_data_slide8"}) =>
        /\ ret[1].res.script.status = ret[1].res.main.status
        /\ ret[1].res.main.status = "ok" =>
            /\ ret[1].res.script.value.categories = ret[1].res.main.value.categories
            /\ ret[1].res.script.value.data = ret[1].res.main.value.data

\* Both slide 9 extractions have returned the two series of a worksheet with
\* two data columns, and both slide 8 extractions the rows of a worksheet
\* with fewer than four rows.
C18_Witness ==
    /\ ret # <<>>
    /\ ret[1].res.main.status = "ok"
    /\ ret[1].res.main.value.data # None
    /\ \/ /\ ret[1].fn = "_extract_data_block_slide9"
          /\ Len(df.columns) = 3
          /\ Len(Val(ret[1].res.script.value.data)) = 2
          /\ Len(Val(ret[1].res.script.value.data)[1].v) = 2
       \/ /\ ret[1].fn = "_extract_pending_data_slide8"
          /\ Len(df.rows) = 3
          /\ Len(Val(ret[1].res.script.value.categories)) = 3

(***************************************************************************)
(* Slide 10: which tables are returned                                     *)
(***************************************************************************)
\* The block of the table titled t in df: it starts at the first row titled
\* t, ends at the first Grand Total row at or after it, and its header row is
\* the first row from start up to but excluding end with "Week" in one of
\* its last four cells.
Slide10Block(t, start, end, hdr) ==
    /\ IsFirstOf(start, RowsTitled(t, 0, Len(df.rows) - 1))
    /\ IsFirstOf(end, RowsTitled(<<"Grand Total">>, start, Len(df.rows) - 1))
    /\ IsFirstOf(hdr, {r \in start..(end - 1) : WeekInLastFour(r)})

\* A row after hdr through end has a title and, in its last four cells, a
\* cell that int() rejects.
Slide10Rejects(hdr, end) ==
    \E r \in (hdr + 1)..end :
        /\ df.rows[r + 1][1].v # <<>>
        /\ \E c \in 1..Len(df.columns) :
            /\ c > Len(df.columns) - 4
            /\ PyInt(df.rows[r + 1][c]).status # "ok"

\* The table titled t has a block in df / has a block no row of which is
\* rejected.
Slide10Fails(t) ==
    \E start, end, hdr \in 0..(Len(df.rows) - 1) :
        Slide10Block(t, start, end, hdr) /\ Slide10Rejects(hdr, end)
Slide10Reads(t) ==
    \E start, end, hdr \in 0..(Len(df.rows) - 1) :
        Slide10Block(t, start, end, hdr) /\ ~Slide10Rejects(hdr, end)

Slide10Titles ==
    {<<"Business Service - INC">>, <<"Business Service - RITM">>,
     <<"Business Service - Change Requests">>}
TitleRank(t) ==
    CASE t = <<"Business Service - INC">> -> 1
      [] t = <<"Business Service - RITM">> -> 2
      [] t = <<"Business Service - Change Requests">> -> 3
      [] OTHER -> 0

\* C19: when a cell of a table's rows cannot be converted to an integer,
\* _extract_data_for_slide10 still returns; it has printed the error line of
\* that table, the result holds no table (not a partial one either) titled
\* so, and it holds the table of every other title whose block reads.
C19_FailedTableLeftOutRestReturned ==
    \A k \in 1..Len(ret) :
        ret[k].fn = "_extract_data_for_slide10" =>
            \A t \in Slide10Titles :
                Slide10Fails(t) =>
                    /\ ret[k].res.status = "ok"
                    /\ \E i \in 1..Len(ret[k].res.printed) :
                        ret[k].res.printed[i] = <<"ERROR processing table", t>>
                    /\ \A i \in 1..Len(ret[k].res.value) : ret[k].res.value[i].title # t
                    /\ \A u \in Slide10Titles \ {t} :
                        Slide10Reads(u) =>
                            \E i \in 1..Len(ret[k].res.value) :
                                /\ ret[k].res.value[i].title = u
                                /\ Slide10TableIs(ret[k].res.value[i],
                                        LAMBDA r, end : df.rows[r + 1][1].v # <<>>)

\* The INC table had a row with a text in a number cell: its error line was
\* printed, and the RITM table after it was returned, with its one row.
C19_Witness ==
    /\ Len(ret) = 1
    /\ ret[1].fn = "_extract_data_for_slide10"
    /\ Slide10Fails(<<"Business Service - INC">>)
    /\ ret[1].res.printed = <<<<"ERROR processing table", <<"Business Service - INC">>>>>>
    /\ Len(ret[1].res.value) = 1
    /\ ret[1].res.value[1].title = <<"Business Service - RITM">>
    /\ Len(ret[1].res.value[1].data) = 1

\* C20: _extract_data_for_slide10 returns a table titled t exactly when t is
\* a target title whose title row is found, with a Grand Total row at or
\* after it, a row with "Week" in its last four cells from the title row up
\* to but excluding the Grand Total row, and no cell that int() rejects; the
\* tables are in the order INC, RITM, Change Requests, at most one per
\* title, and the headers of a table are its title and the stripped last
\* four cells of the first such row.
C20_TableIffBlockReads ==
    \A k \in 1..Len(ret) :
        ret[k].fn = "_extract_data_for_slide10" =>
            LET tables == ret[k].res.value IN
            /\ \A i \in 1..Len(tables) : tables[i].title \in Slide10Titles
            /\ \A t \in Slide10Titles :
                (\E i \in 1..Len(tables) : tables[i].title = t) <=> Slide10Reads(t)
            /\ \A i, j \in 1..Len(tables) :
                i < j => TitleRank(tables[i].title) < TitleRank(tables[j].title)
            /\ \A i \in 1..Len(tables) :
                \E start, end, hdr \in 0..(Len(df.rows) - 1) :
                    /\ Slide10Block(tables[i].title, start, end, hdr)
                    /\ tables[i].headers =
                        <<tables[i].title>> \o
                        [j \in 1..4 |->
                            Strip(PyStr(df.rows[hdr + 1][Len(df.columns) - 4 + j]))]

\* Two tables were returned, Change Requests after INC, from a worksheet
\* in which the RITM table has no block that reads.
C20_Witness ==
    /\ Len(ret) = 1
    /\ ret[1].fn = "_extract_data_for_slide10"
    /\ Len(ret[1].res.value) = 2
    /\ ret[1].res.value[1].title = <<"Business Service - INC">>
    /\ ret[1].res.value[2].title = <<"Business Service - Change Requests">>
    /\ ~Slide10Reads(<<"Business Service - RITM">>)

(***************************************************************************)
(* format_main_title on bounded title shapes                               *)
(***************************************************************************)
\* Paragraphs of a generated title shape.
MaxParas == 2

\* The paragraphs a title holds: those of TitleTexts and a '$' line.
TitleParas == TitleTexts \cup {<<"Week", " ", "$">>}

\* The values passed as last_week: week labels with and without a blank
\* before the number, a label without a number, texts that are no week
\* label, an empty cell, a number.
LastWeeks ==
    {S(<<"Week", " ", "7">>), S(<<"Week", "12">>), S(<<"Week">>),
     S(<<"Total">>), NaN, N(3)}

\* The slide a title is looked up on: no title shape, a table of that name,
\* or a text box of one to MaxParas paragraphs.
InitTitle ==
    /\ pc = At("format_main_title", 0)
    /\ \/ slide = <<>>
       \/ slide = <<Table("MainTitle")>>
       \/ \E n \in 1..MaxParas : \E paras \in [1..n -> TitleParas] :
            slide = <<TextBox("MainTitle", paras)>>
    /\ df = [columns |-> <<>>, rows |-> <<>>]
    /\ ret = <<>>
    /\ workbook = {}
    /\ dfs = {}
    /\ prs = 0
    /\ calls = <<>>
    /\ files = {}
    /\ log = <<>>
    /\ events = <<>>

\* format_main_title(find_shape_by_name(slide, "MainTitle"), last_week)
CallFormatMainTitle ==
    /\ pc = At("format_main_title", 0)
    /\ ret = <<>>
    /\ \E last_week \in LastWeeks :
        LET run == format_main_title(Run(slide), ShapeIndex(slide, "MainTitle"), last_week)
        IN  /\ ret' = <<Call("format_main_title", <<slide, last_week>>, run)>>
            /\ slide' = run.shapes
    /\ UNCHANGED df
    /\ UNCHANGED mainVars

NextTitle == CallFormatMainTitle

SpecTitle == InitTitle /\ [][NextTitle]_vars

\* last_week holds "Week", white space or none, and digits.
HasWeekNumber(last_week) ==
    \E i, j \in 1..Len(PyStr(last_week)) :
        /\ i < j
        /\ PyStr(last_week)[i] = "Week"
        /\ IsDigits(PyStr(last_week)[j])
        /\ \A q \in (i + 1)..(j - 1) : PyStr(last_week)[q] = " "

\* text is old with every '$' replaced by week_num.
DollarsReplaced(old, text, week_num) ==
    /\ Len(text) = Len(old)
    /\ \A q \in 1..Len(old) : text[q] = IF old[q] = "$" THEN week_num ELSE old[q]

\* C21 as claimed: format_main_title leaves the slide as it is when the
\* shape is missing or has no text frame or last_week holds no
\* 'Week <digits>'; otherwise the text of the shape afterwards is the text
\* before with every '$' replaced by the week number or, when the text had
\* no '$', with the week number put between 'past' and 'weeks'.
C21_TitleTextRewritten ==
    (ret # <<>> /\ ret[1].fn = "format_main_title") =>
        LET before == ret[1].args[1]
            last_week == ret[1].args[2]
        IN  IF before = <<>> \/ before[1].kind # "text" \/ ~HasWeekNumber(last_week)
            THEN slide = before
            ELSE LET old == JoinParas(before[1].paras)
                     text == JoinParas(slide[1].paras)
                     week_num == Val(WeekNumber(PyStr(last_week)))
                 IN  IF \E q \in 1..Len(old) : old[q] = "$"
                     THEN DollarsReplaced(old, text, week_num)
                     ELSE text = SubPastWeeks(old, week_num)

(***************************************************************************)
(* Slide 8: the sentences of the text boxes                                *)
(***************************************************************************)
\* The text of the cell of the last row of df in the column called label,
\* "0" when df has no such column.
LastRowText(label) ==
    IF ColumnOf(label) = 0 THEN <<"0">>
    ELSE PyStr(df.rows[Len(df.rows)][ColumnOf(label)])

\* One of the labels is a column of df.
AnyColumn(labels) == \E q \in 1..Len(labels) : ColumnOf(labels[q]) # 0

\* C22: when populate_slide_8 returns, the first paragraph of 'INC Conc'
\* (if the slide has it and an INC series was extracted) is the template's
\* sentence with the 'Week #' of the last row of the sheet as week number
\* and that row's 'Total INCs Created' as count; the first paragraph of
\* 'RITM Conc' (likewise) is the template's sentence with the last row's
\* week number, 'Total RITMs Created' and 'RITMs Fulfilled'; a column the
\* sheet does not have is written as 0, and the other paragraphs stay.
C22_SentencesFromLastRow ==
    (ret # <<>> /\ ret[1].fn = "populate_slide_8" /\ ret[1].res.status = "ok") =>
        LET before == ret[1].args[1]
            inc == ShapeIndex(before, "INC Conc")
            ritm == ShapeIndex(before, "RITM Conc")
        IN  /\ (inc # 0 /\ AnyColumn(inc_series_labels)) =>
                /\ slide[inc].paras[1] =
                    <<"Total Incidents raised for the week", " ", " ">>
                    \o LastRowText(<<"Week #">>) \o <<" ", "is", " ">>
                    \o LastRowText(<<"Total INCs Created">>)
                    \o <<".", " ", "Resolved", " ", "0">>
                /\ Tail(slide[inc].paras) = Tail(before[inc].paras)
            /\ (ritm # 0 /\ AnyColumn(ritm_series_labels)) =>
                /\ slide[ritm].paras[1] =
                    <<"Total RITM raised for the Week", " ">>
                    \o LastRowText(<<"Week #">>) \o <<" ", "is", " ">>
                    \o LastRowText(<<"Total RITMs Created">>)
                    \o <<",", " ", "Fulfilled", "-", " ">>
                    \o LastRowText(<<"RITMs Fulfilled">>)
                /\ Tail(slide[ritm].paras) = Tail(before[ritm].paras)

\* populate_slide_8 has returned on a sheet of more than four rows without a
\* 'RITMs Fulfilled' column and a slide with both text boxes: the sentences
\* hold the numbers of the last row, and 0 for the missing series.
C22_Witness ==
    /\ ret # <<>>
    /\ ret[1].fn = "populate_slide_8"
    /\ ret[1].res.status = "ok"
    /\ Len(df.rows) > 4
    /\ ColumnOf(<<"RITMs Fulfilled">>) = 0
    /\ ColumnOf(<<"Total RITMs Created">>) # 0
    /\ ColumnOf(<<"Total INCs Created">>) # 0
    /\ ShapeIndex(slide, "INC Conc") # 0
    /\ ShapeIndex(slide, "RITM Conc") # 0
    /\ slide[ShapeIndex(slide, "INC Conc")].paras[1][4] = "25"
    /\ slide[ShapeIndex(slide, "INC Conc")].paras[1][8] = "53"
    /\ slide[ShapeIndex(slide, "RITM Conc")].paras[1][13] = "0"

(***************************************************************************)
(* Slide 9: the rows the two blocks start at                               *)
(***************************************************************************)
\* The rows (0-based) of df whose first cell is the string label.
RowsLabelled(label) == {r \in 0..(Len(df.rows) - 1) : df.rows[r + 1][1] = S(label)}

\* C23 as claimed: on a sheet with a row whose first cell is 'Type' and a
\* row whose first cell is 'Closure Type', in either order, the extraction
\* for the label 'Type' returns the block below the first 'Type' row and
\* the extraction for the label 'Closure Type' the block below the first
\* 'Closure Type' row: the first cells of the num_rows rows below it as
\* categories, the texts of its last four cells as headers.
C23_BlockStartsAtItsOwnRow ==
    (/\ ret # <<>>
     /\ ret[1].fn = "_extract_data_block_slide9"
     /\ RowsLabelled(TYPE) # {}
     /\ RowsLabelled(CLOSURE_TYPE) # {}) =>
        LET label == ret[1].args[1]
            num_rows == ret[1].args[2]
            start == First(RowsLabelled(label))
            v == ret[1].res.main.value
        IN  /\ v.categories = Some(CellsOf(1, start + 1, start + num_rows))
            /\ v.headers = Some([j \in 1..Len(LastFourDataColumns) |->
                                    PyStr(df.rows[start + 1][LastFourDataColumns[j]])])

(***************************************************************************)
(* Slide 10: placeholders and the tables created                           *)
(***************************************************************************)
\* The title of the table that takes the place of a placeholder.
PlaceholderTitle(name) ==
    CASE name = "BSI" -> <<"Business Service - INC">>
      [] name = "BSR" -> <<"Business Service - RITM">>
      [] OTHER -> <<"Business Service - Change Requests">>

\* shapes holds a table created at the position of the table titled t.
TableCreated(shapes, t) ==
    \E i \in 1..Len(shapes) :
        shapes[i].kind = "table" /\ shapes[i].name = "Table" /\ shapes[i].fmt = t

\* C24 as claimed: when populate_slide_10 returns, a placeholder ('BSI',
\* 'BSR', 'BSC') of the slide is gone only if the table of its title was
\* created, and is still on the slide when that table was not extracted;
\* when no table at all was created the slide is as it was.
C24_PlaceholderGoneOnlyIfReplaced ==
    (ret # <<>> /\ ret[1].fn = "populate_slide_10" /\ ret[1].res.status = "ok") =>
        LET before == ret[1].args[1] IN
        /\ \A q \in 1..Len(SLIDE10_PLACEHOLDERS) :
            LET name == SLIDE10_PLACEHOLDERS[q] IN
            (ShapeIndex(before, name) # 0 /\ ShapeIndex(slide, name) = 0)
                => TableCreated(slide, PlaceholderTitle(name))
        /\ (\A q \in 1..Len(SLIDE10_PLACEHOLDERS) :
                ~TableCreated(slide, PlaceholderTitle(SLIDE10_PLACEHOLDERS[q])))
            => slide = before

(***************************************************************************)
(* populate_slide_6 run again on the slide it has populated                *)
(***************************************************************************)
\* The slide 6 of a template and an 'INC & RITM Resolved' worksheet.
InitAgain ==
    /\ pc = At("populate_again", SLIDE_6_INDEX + 1)
    /\ \E present \in SUBSET {ShapeNames(6)[i] : i \in 1..Len(ShapeNames(6))} :
       \E title_text \in IF "MainTitle" \in present THEN TitleTexts ELSE {<<>>} :
       \E old_charts \in 0..MaxOldCharts :
            slide = TemplateSlide(6, present, title_text, old_charts)
    /\ \E nw \in 0..NumDataCols, nrows \in Slide6RowCounts, blank \in BOOLEAN :
            df = Slide6Sheet(nw, nrows, blank)
    /\ ret = <<>>
    /\ workbook = {}
    /\ dfs = {}
    /\ prs = 0
    /\ calls = <<>>
    /\ files = {}
    /\ log = <<>>
    /\ events = <<>>

\* populate_slide_6(prs, df_slide6, SLIDE_6_INDEX), on the slide as the
\* call before left it.
CallPopulateSlide6Again ==
    /\ pc = At("populate_again", SLIDE_6_INDEX + 1)
    /\ Len(ret) < MaxCalls
    /\ LET run == populate_slide_6(slide, df)
       IN  /\ ret' = Append(ret, Call("populate_slide_6", <<slide, df>>, run))
           /\ slide' = run.shapes
    /\ UNCHANGED df
    /\ UNCHANGED mainVars

NextAgain == CallPopulateSlide6Again

SpecAgain == InitAgain /\ [][NextAgain]_vars

\* The number of chart shapes among shapes.
ChartCount(shapes) == Cardinality({i \in 1..Len(shapes) : shapes[i].kind = "chart"})

\* C25: when populate_slide_6 returns, the slide holds exactly two chart
\* shapes, the 'INC Resolved' and the 'RITM Resolved' line chart, whatever
\* charts it held before; a further call on the slide so left returns with
\* no more charts than the slide had.
C25_TwoChartsAfterEveryCall ==
    \A k \in 1..Len(ret) :
        (ret[k].fn = "populate_slide_6" /\ ret[k].res.status = "ok") =>
            /\ ChartCount(ret[k].res.shapes) = 2
            /\ ChartsTitled(ret[k].res.shapes, <<"INC", " ", "Resolved">>) = 1
            /\ ChartsTitled(ret[k].res.shapes, <<"RITM", " ", "Resolved">>) = 1
            /\ k > 1 => ChartCount(ret[k].res.shapes) <= ChartCount(ret[k].args[1])

\* populate_slide_6 has returned twice on a slide that held one chart before
\* the first call: the slide holds two charts, as after the first call.
C25_Witness ==
    /\ Len(ret) = 2
    /\ ret[1].res.status = "ok"
    /\ ret[2].res.status = "ok"
    /\ ChartCount(ret[1].args[1]) = 1
    /\ ChartCount(ret[2].args[1]) = 2
    /\ ChartCount(slide) = 2
    /\ ChartsTitled(slide, <<"Old">>) = 0

====
